---- MODULE Spec2Model ----
(***************************************************************************)
(* Helmholtz operator assembly (src/src/operators.py and the legacy        *)
(* python/helmholtz_basics/operators.py), load building (src/src/loads.py) *)
(* and the GMRES solvers (gmres_basic of the notebook export, gmres_solve  *)
(* of solvers.py) as state machines.                                       *)
(*                                                                         *)
(* Numbers.  Matrix entries of the assemblers are exact fixed-point        *)
(* numbers: the integer x stands for the real x / Scale, where Scale is a  *)
(* common denominator of every 1/h^2 the bounded grids produce.  The       *)
(* solver works on exact rationals <<num, den>>.                           *)
(***************************************************************************)
EXTENDS Integers, Sequences, FiniteSets, TLC

VARIABLES grid, result, load, rhs, gm, sv, drv, conc

vars == <<grid, result, load, rhs, gm, sv, drv, conc>>

asmVars == <<grid, result, load, rhs>>

None == "None"

\* ------------------------------------------------------------------ bounds
MaxNodes == 3
MaxLength == 2
MaxK == 2
MaxSize == 27
MaxIt == 3

\* ------------------------------------------------------- fixed-point reals
RECURSIVE Fact(_)
Fact(n) == IF n <= 1 THEN 1 ELSE n * Fact(n - 1)

Scale == Fact(MaxLength) * Fact(MaxLength)

Q(x) == x * Scale

QMul(a, b) == (a * b) \div Scale

\* ----------------------------------------------------------------- GridSpec
RECURSIVE ProdFrom(_, _)
ProdFrom(s, i) == IF i > Len(s) THEN 1 ELSE s[i] * ProdFrom(s, i + 1)

GridSize(g) == ProdFrom(g.shape, 1)

\* spacing[a] = lengths[a] / (shape[a] - 1), kept as the fraction <<num, den>>
GridSpacing(g) == [a \in 1..g.dims |-> <<g.lengths[a], g.shape[a] - 1>>]

GridSpecValid(dims, shape, lengths) ==
    /\ 1 <= dims /\ dims <= 3
    /\ Len(shape) = dims
    /\ Len(lengths) = dims
    /\ \A a \in 1..Len(shape) : shape[a] > 1
    /\ \A a \in 1..Len(lengths) : lengths[a] > 0

Grids ==
    { g \in UNION { [dims : {d}, shape : [1..d -> 2..MaxNodes],
                     lengths : [1..d -> 1..MaxLength]] : d \in 1..3 } :
        /\ GridSpecValid(g.dims, g.shape, g.lengths)
        /\ GridSize(g) <= MaxSize }

\* 1.0 / h**2 for the spacing h = <<num, den>>
InvH2(h) == (Scale * h[2] * h[2]) \div (h[1] * h[1])

\* --------------------------------------------------------- indexing helpers
\* _on_boundary(idx, shape)
OnBoundary(idx, shape) ==
    \E a \in 1..Len(shape) : idx[a] = 0 \/ idx[a] = shape[a] - 1

\* _flatten_index(idx, shape) of operators.py: the loop over the reversed axes
RECURSIVE FlattenLoop(_, _, _, _, _)
FlattenLoop(idx, shape, a, linear, stride) ==
    IF a < 1 THEN linear
    ELSE FlattenLoop(idx, shape, a - 1, linear + idx[a] * stride, stride * shape[a])

FlattenIndex(idx, shape) == FlattenLoop(idx, shape, Len(shape), 0, 1)

\* _flatten_index(idx, shape) of loads.py
RECURSIVE LoadsFlattenLoop(_, _, _, _, _)
LoadsFlattenLoop(idx, shape, a, linear, stride) ==
    IF a < 1 THEN linear
    ELSE LoadsFlattenLoop(idx, shape, a - 1, linear + idx[a] * stride, stride * shape[a])

\* variant of LoadsFlattenIndex with the first axis fastest
RECURSIVE LoadsFlattenColumnMajorLoop(_, _, _, _, _)
LoadsFlattenColumnMajorLoop(idx, shape, a, linear, stride) ==
    IF a > Len(shape) THEN linear
    ELSE LoadsFlattenColumnMajorLoop(idx, shape, a + 1, linear + idx[a] * stride,
                                     stride * shape[a])

LoadsFlattenColumnMajor(idx, shape) == LoadsFlattenColumnMajorLoop(idx, shape, 1, 0, 1)

LoadsFlattenIndex(idx, shape) == LoadsFlattenLoop(idx, shape, Len(shape), 0, 1)

\* np.ndindex(shape): every multi-index, as a set and in C order
NdIndexSet(shape) ==
    { idx \in [1..Len(shape) -> 0..(MaxNodes - 1)] :
        \A a \in 1..Len(shape) : idx[a] < shape[a] }

RECURSIVE Unravel(_, _, _)
Unravel(r, shape, a) ==
    IF a > Len(shape) THEN << >>
    ELSE LET below == ProdFrom(shape, a + 1)
         IN  <<r \div below>> \o Unravel(r % below, shape, a + 1)

NdIndex(shape) == [p \in 1..ProdFrom(shape, 1) |-> Unravel(p - 1, shape, 1)]

\* ------------------------------------------------------------ sparse algebra
Zeros(n) == [r \in 0..(n - 1) |-> [c \in 0..(n - 1) |-> 0]]

\* sparse.eye(n)
Eye(n) == [r \in 0..(n - 1) |-> [c \in 0..(n - 1) |-> IF r = c THEN Q(1) ELSE 0]]

MatSize(M) == Cardinality(DOMAIN M)

\* sparse.diags([lo, main, up], offsets=[-1, 0, 1]) with constant diagonals
Diags(n, lo, main, up) ==
    [r \in 0..(n - 1) |-> [c \in 0..(n - 1) |->
        IF c = r THEN main
        ELSE IF c = r - 1 THEN lo
        ELSE IF c = r + 1 THEN up
        ELSE 0]]

\* sparse.kron(A, B)
Kron(A, B) ==
    LET na == MatSize(A)
        nb == MatSize(B)
    IN  [r \in 0..(na * nb - 1) |-> [c \in 0..(na * nb - 1) |->
            QMul(A[r \div nb][c \div nb], B[r % nb][c % nb])]]

MatAdd(A, B) == [r \in DOMAIN A |-> [c \in DOMAIN A |-> A[r][c] + B[r][c]]]

MatScale(s, A) == [r \in DOMAIN A |-> [c \in DOMAIN A |-> QMul(s, A[r][c])]]

\* _kron_all(mats): reduce(kron) from the left
RECURSIVE KronAllFrom(_, _, _)
KronAllFrom(acc, mats, i) ==
    IF i > Len(mats) THEN acc ELSE KronAllFrom(Kron(acc, mats[i]), mats, i + 1)

KronAll(mats) == KronAllFrom(mats[1], mats, 2)

\* -------------------------------------------------- src/src/operators.py
BCs == {"dirichlet", "neumann", "periodic"}

\* boundary kinds a caller may pass: the members of BC, a differently cased
\* spelling and unknown kinds
BoundaryKinds == BCs \cup {"DIRICHLET", "robin", ""}

\* str(value).lower() on BoundaryKinds
Lower(value) == IF value = "DIRICHLET" THEN "dirichlet" ELSE value

\* variant of BCParse that falls back to dirichlet for an unknown kind
BCParseWithDefault(value) ==
    LET v == Lower(value)
    IN  IF v \in BCs THEN [error |-> None, bc |-> v]
        ELSE [error |-> None, bc |-> "dirichlet"]

\* BC.parse(value)
BCParse(value) ==
    LET v == Lower(value)
    IN  IF v \in BCs THEN [error |-> None, bc |-> v]
        ELSE [error |-> "ValueError: Unsupported boundary condition", bc |-> None]

\* _assemble_laplacian_fd falls through its three comparisons with cfg.bc
\* and raises
UnsupportedBC(bc) == bc \notin BCs

\* _second_derivative_1d(n, h, dtype)
SecondDerivative1d(n, h) == Diags(n, InvH2(h), -2 * InvH2(h), InvH2(h))

\* variant of DirichletLoop that also clears the column of every boundary
\* node in the other rows
RECURSIVE DirichletLoopClearingColumns(_, _, _, _)
DirichletLoopClearingColumns(A, shape, nd, p) ==
    IF p > Len(nd) THEN A
    ELSE LET idx == nd[p]
             r == FlattenIndex(idx, shape)
         IN  IF OnBoundary(idx, shape)
             THEN DirichletLoopClearingColumns(
                      [i \in DOMAIN A |-> [c \in DOMAIN A |->
                          IF i = r /\ c = r THEN Q(1)
                          ELSE IF i = r \/ c = r THEN 0
                          ELSE A[i][c]]],
                      shape, nd, p + 1)
             ELSE DirichletLoopClearingColumns(A, shape, nd, p + 1)

\* _apply_dirichlet: boundary rows become identity rows
RECURSIVE DirichletLoop(_, _, _, _)
DirichletLoop(A, shape, nd, p) ==
    IF p > Len(nd) THEN A
    ELSE LET idx == nd[p]
             r == FlattenIndex(idx, shape)
         IN  IF OnBoundary(idx, shape)
             THEN DirichletLoop([A EXCEPT ![r] = [c \in DOMAIN A |-> IF c = r THEN Q(1) ELSE 0]],
                                shape, nd, p + 1)
             ELSE DirichletLoop(A, shape, nd, p + 1)

ApplyDirichlet(M, shape) == DirichletLoop(M, shape, NdIndex(shape), 1)

\* variant of NeumannIdxLoop that treats the face at index 0 only
RECURSIVE NeumannIdxLoopLowerFace(_, _, _, _, _, _)
NeumannIdxLoopLowerFace(A, shape, axis, inv, nd, p) ==
    IF p > Len(nd) THEN A
    ELSE LET idx == nd[p]
             r == FlattenIndex(idx, shape)
         IN  IF idx[axis] = 0
             THEN NeumannIdxLoopLowerFace([A EXCEPT ![r][r] = A[r][r] + inv],
                                          shape, axis, inv, nd, p + 1)
             ELSE NeumannIdxLoopLowerFace(A, shape, axis, inv, nd, p + 1)

\* _apply_neumann: +1/h^2 on the diagonal at nodes on a face orthogonal to the axis
RECURSIVE NeumannIdxLoop(_, _, _, _, _, _)
NeumannIdxLoop(A, shape, axis, inv, nd, p) ==
    IF p > Len(nd) THEN A
    ELSE LET idx == nd[p]
             r == FlattenIndex(idx, shape)
         IN  IF idx[axis] = 0 \/ idx[axis] = shape[axis] - 1
             THEN NeumannIdxLoop([A EXCEPT ![r][r] = A[r][r] + inv], shape, axis, inv, nd, p + 1)
             ELSE NeumannIdxLoop(A, shape, axis, inv, nd, p + 1)

RECURSIVE NeumannAxisLoop(_, _, _, _)
NeumannAxisLoop(A, shape, spacing, axis) ==
    IF axis > Len(shape) THEN A
    ELSE NeumannAxisLoop(
             NeumannIdxLoop(A, shape, axis, InvH2(spacing[axis]), NdIndex(shape), 1),
             shape, spacing, axis + 1)

ApplyNeumann(M, shape, spacing) == NeumannAxisLoop(M, shape, spacing, 1)

\* _apply_periodic: for every node, +1/h^2 on the columns of its wrapped
\* neighbours at -1 and +1 along the axis
PeriodicStep(A, shape, axis, inv, idx) ==
    LET n == shape[axis]
        r == FlattenIndex(idx, shape)
        im == [idx EXCEPT ![axis] = (idx[axis] - 1) % n]
        ip == [im EXCEPT ![axis] = (im[axis] + 2) % n]
        cm == FlattenIndex(im, shape)
        cp == FlattenIndex(ip, shape)
        A1 == [A EXCEPT ![r][cm] = A[r][cm] + inv]
    IN  [A1 EXCEPT ![r][cp] = A1[r][cp] + inv]

RECURSIVE PeriodicIdxLoop(_, _, _, _, _, _)
PeriodicIdxLoop(A, shape, axis, inv, nd, p) ==
    IF p > Len(nd) THEN A
    ELSE PeriodicIdxLoop(PeriodicStep(A, shape, axis, inv, nd[p]), shape, axis, inv, nd, p + 1)

RECURSIVE PeriodicAxisLoop(_, _, _, _)
PeriodicAxisLoop(A, shape, spacing, axis) ==
    IF axis > Len(shape) THEN A
    ELSE PeriodicAxisLoop(
             PeriodicIdxLoop(A, shape, axis, InvH2(spacing[axis]), NdIndex(shape), 1),
             shape, spacing, axis + 1)

ApplyPeriodic(M, shape, spacing) == PeriodicAxisLoop(M, shape, spacing, 1)

\* the Kronecker-sum component of one axis: identities with D2 at `axis`
KronComponent(g, axis) ==
    KronAll([a \in 1..g.dims |->
                IF a = axis THEN SecondDerivative1d(g.shape[a], GridSpacing(g)[a])
                ELSE Eye(g.shape[a])])

RECURSIVE SumComponents(_, _, _)
SumComponents(g, acc, axis) ==
    IF axis > g.dims THEN acc
    ELSE SumComponents(g, MatAdd(acc, KronComponent(g, axis)), axis + 1)

\* the Laplacian before the boundary pass
KronSumLaplacian(g) == SumComponents(g, KronComponent(g, 1), 2)

\* _assemble_laplacian_fd(grid, cfg)
AssembleLaplacianFd(g, bc) ==
    LET L == KronSumLaplacian(g)
    IN  CASE bc = "dirichlet" -> ApplyDirichlet(L, g.shape)
          [] bc = "neumann"   -> ApplyNeumann(L, g.shape, GridSpacing(g))
          [] bc = "periodic"  -> ApplyPeriodic(L, g.shape, GridSpacing(g))

\* helmholtz_operator(grid, k, bc)
\* variant of HelmholtzOperator that shifts by k instead of k^2
HelmholtzOperatorLinearShift(g, k, bc) ==
    MatAdd(AssembleLaplacianFd(g, bc), MatScale(Q(k), Eye(GridSize(g))))

HelmholtzOperator(g, k, bc) ==
    MatAdd(AssembleLaplacianFd(g, bc), MatScale(Q(k * k), Eye(GridSize(g))))

\* laplacian_operator(grid, bc)
LaplacianOperator(g, bc) == AssembleLaplacianFd(g, bc)

\* FiniteDifference._resolve_k(k); an Optional[float] is << >> (None) or <<x>>
ResolveK(wavenumber, k) ==
    IF k = << >> /\ wavenumber # << >> THEN wavenumber[1]
    ELSE IF k = << >> \/ k[1] = 0 THEN 0 ELSE k[1]

\* FiniteDifference.assemble(grid, k) with config.bc and self.wavenumber
FDAssemble(g, bc, wavenumber, k) ==
    LET kk == ResolveK(wavenumber, k)
    IN  MatAdd(AssembleLaplacianFd(g, bc), MatScale(Q(kk * kk), Eye(GridSize(g))))

\* what a call of an entry point leaves with its caller: the returned matrix,
\* or the exception and nothing else
Returned(entry, kind, bc, k, matrix) ==
    [entry |-> entry, kind |-> kind, bc |-> bc, k |-> k, matrix |-> matrix, error |-> None]

Raised(entry, kind, k, error) ==
    [entry |-> entry, kind |-> kind, bc |-> None, k |-> k, matrix |-> << >>, error |-> error]

\* helmholtz_operator(grid, k, bc) as a call: parse, assemble, shift
HelmholtzOperatorCall(g, k, kind) ==
    LET p == BCParse(kind)
    IN  IF p.error # None THEN Raised("helmholtz_operator", kind, k, p.error)
        ELSE IF UnsupportedBC(p.bc)
        THEN Raised("helmholtz_operator", kind, k, "ValueError: Unsupported BC")
        ELSE Returned("helmholtz_operator", kind, p.bc, k, HelmholtzOperator(g, k, p.bc))

\* laplacian_operator(grid, bc) as a call
LaplacianOperatorCall(g, kind) ==
    LET p == BCParse(kind)
    IN  IF p.error # None THEN Raised("laplacian_operator", kind, 0, p.error)
        ELSE IF UnsupportedBC(p.bc)
        THEN Raised("laplacian_operator", kind, 0, "ValueError: Unsupported BC")
        ELSE Returned("laplacian_operator", kind, p.bc, 0, LaplacianOperator(g, p.bc))

\* FiniteDifference(config=FDConfig(bc=kind)).assemble(grid, k) as a call:
\* the configured kind reaches _assemble_laplacian_fd unparsed
FDAssembleCall(g, kind, wavenumber, k) ==
    IF UnsupportedBC(kind)
    THEN Raised("FiniteDifference.assemble", kind, ResolveK(wavenumber, k),
                "ValueError: Unsupported BC")
    ELSE Returned("FiniteDifference.assemble", kind, kind, ResolveK(wavenumber, k),
                  FDAssemble(g, kind, wavenumber, k))

\* ------------------------------------ python/helmholtz_basics/operators.py
\* _apply_dirichlet(matrix, shape) of the legacy package
RECURSIVE LegacyDirichletLoop(_, _, _, _)
LegacyDirichletLoop(A, shape, nd, p) ==
    IF p > Len(nd) THEN A
    ELSE LET idx == nd[p]
             row == FlattenIndex(idx, shape)
         IN  IF \E a \in 1..Len(shape) : idx[a] = 0 \/ idx[a] = shape[a] - 1
             THEN LegacyDirichletLoop(
                      [A EXCEPT ![row] = [c \in DOMAIN A |-> IF c = row THEN Q(1) ELSE 0]],
                      shape, nd, p + 1)
             ELSE LegacyDirichletLoop(A, shape, nd, p + 1)

LegacyApplyDirichlet(M, shape) == LegacyDirichletLoop(M, shape, NdIndex(shape), 1)

\* _assemble_1d, lines 57-61: the tridiagonal matrix before the two boundary
\* rows are overwritten
LegacyDiags1d(g, k) ==
    LET inv == InvH2(GridSpacing(g)[1])
    IN  Diags(g.shape[1], -inv, 2 * inv + Q(k * k), -inv)

\* _assemble_1d
LegacyAssemble1d(g, k) ==
    LET n == g.shape[1]
        A == LegacyDiags1d(g, k)
        A0 == [A EXCEPT ![0] = [c \in 0..(n - 1) |-> IF c = 0 THEN Q(1) ELSE 0]]
    IN  [A0 EXCEPT ![n - 1] = [c \in 0..(n - 1) |-> IF c = n - 1 THEN Q(1) ELSE 0]]

\* _assemble_2d, lines 71-83: the matrix handed to _apply_dirichlet
LegacyKron2d(g, k) ==
    LET nx == g.shape[1]
        ny == g.shape[2]
        ix == InvH2(GridSpacing(g)[1])
        iy == InvH2(GridSpacing(g)[2])
        main == 2 * ix + 2 * iy + Q(k * k)
        Dx == Diags(nx, -ix, main, -ix)
        Dy == Diags(ny, -iy, 0, -iy)
        laplace == MatAdd(Kron(Dx, Eye(ny)), Kron(Eye(nx), Dy))
    IN  MatAdd(laplace, MatScale(Q(k * k), Eye(nx * ny)))

\* _assemble_2d
LegacyAssemble2d(g, k) == LegacyApplyDirichlet(LegacyKron2d(g, k), g.shape)

\* _assemble_3d, lines 89-109: the matrix handed to _apply_dirichlet
LegacyKron3d(g, k) ==
    LET nx == g.shape[1]
        ny == g.shape[2]
        nz == g.shape[3]
        ix == InvH2(GridSpacing(g)[1])
        iy == InvH2(GridSpacing(g)[2])
        iz == InvH2(GridSpacing(g)[3])
        main == 2 * (ix + iy + iz) + Q(k * k)
        Dx == Diags(nx, -ix, main, -ix)
        Dy == Diags(ny, -iy, 0, -iy)
        Dz == Diags(nz, -iz, 0, -iz)
        laplace == MatAdd(MatAdd(Kron(Kron(Dx, Eye(ny)), Eye(nz)),
                                 Kron(Kron(Eye(nx), Dy), Eye(nz))),
                          Kron(Kron(Eye(nx), Eye(ny)), Dz))
    IN  MatAdd(laplace, MatScale(Q(k * k), Eye(nx * ny * nz)))

\* _assemble_3d
LegacyAssemble3d(g, k) == LegacyApplyDirichlet(LegacyKron3d(g, k), g.shape)

\* FiniteDifference.assemble(grid, wavenumber) of the legacy package
LegacyFDAssemble(g, k) ==
    CASE g.dims = 1 -> LegacyAssemble1d(g, k)
      [] g.dims = 2 -> LegacyAssemble2d(g, k)
      [] g.dims = 3 -> LegacyAssemble3d(g, k)

\* ---------------------------------------------------------- src/src/loads.py
\* Physical coordinates are multiples of 1/CoordDen.
CoordDen == 2

\* round(x) of Python for x = p/q >= 0: to the nearest integer, ties to even
RoundHalfEven(p, q) ==
    LET f == p \div q
        rem2 == 2 * (p % q)
    IN  IF rem2 < q THEN f
        ELSE IF rem2 > q THEN f + 1
        ELSE IF f % 2 = 0 THEN f ELSE f + 1

\* variant of LatticeIndex that rounds without clamping
LatticeIndexUnclamped(m, h, n) == RoundHalfEven(m * h[2], CoordDen * h[1])

\* int(round(np.clip(coord / h, 0.0, n - 1))) for coord = m / CoordDen, h = <<num, den>>
LatticeIndex(m, h, n) ==
    LET p == m * h[2]
        q == CoordDen * h[1]
    IN  IF p <= 0 THEN 0
        ELSE IF p >= (n - 1) * q THEN n - 1
        ELSE RoundHalfEven(p, q)

\* the physical coordinates PointSource.build resolves `location` to
PointPhysical(location, g) ==
    CASE location.kind = "centre" -> [a \in 1..g.dims |-> (g.lengths[a] * CoordDen) \div 2]
      [] location.kind = "origin" -> [a \in 1..g.dims |-> 0]
      [] location.kind = "coords" -> [a \in 1..g.dims |-> location.at[a]]

\* PointSource.build(grid)
PointSourceBuild(src, g) ==
    LET physical == PointPhysical(src.location, g)
        idx == [a \in 1..g.dims |-> LatticeIndex(physical[a], GridSpacing(g)[a], g.shape[a])]
        at == LoadsFlattenIndex(idx, g.shape)
    IN  [i \in 0..(GridSize(g) - 1) |-> IF i = at THEN src.amplitude ELSE 0]

\* python/helmholtz_basics/loads.py:
\* min(max(int(round(x / (L / (n - 1)))), 0), n - 1) for x = m / CoordDen
LegacyLatticeIndex(m, L, n) ==
    LET i == RoundHalfEven(m * (n - 1), CoordDen * L)
        lo == IF i > 0 THEN i ELSE 0
    IN  IF lo < n - 1 THEN lo ELSE n - 1

\* _flatten_index of python/helmholtz_basics/loads.py
RECURSIVE LegacyLoadsFlattenLoop(_, _, _, _, _)
LegacyLoadsFlattenLoop(idx, shape, a, linear, stride) ==
    IF a < 1 THEN linear
    ELSE LegacyLoadsFlattenLoop(idx, shape, a - 1, linear + idx[a] * stride,
                                stride * shape[a])

LegacyLoadsFlattenIndex(idx, shape) ==
    LegacyLoadsFlattenLoop(idx, shape, Len(shape), 0, 1)

\* PointSource.build(grid) of python/helmholtz_basics/loads.py
LegacyPointSourceBuild(src, g) ==
    LET idx == [a \in 1..g.dims |->
                   LegacyLatticeIndex(src.location.at[a], g.lengths[a], g.shape[a])]
        at == LegacyLoadsFlattenIndex(idx, g.shape)
    IN  [i \in 0..(ProdFrom(g.shape, 1) - 1) |-> IF i = at THEN src.amplitude ELSE 0]

\* --------------------------------------------------------- exact rationals
\* a rational is <<num, den>> in lowest terms with den > 0
RECURSIVE Gcd(_, _)
Gcd(a, b) == IF b = 0 THEN a ELSE Gcd(b, a % b)

IAbs(a) == IF a < 0 THEN 0 - a ELSE a

Rat(n, d) ==
    LET g == Gcd(IAbs(n), IAbs(d))
        sgn == IF d < 0 THEN 0 - 1 ELSE 1
    IN  <<(sgn * n) \div g, (sgn * d) \div g>>

RInt(n) == <<n, 1>>

RZero == RInt(0)

RAdd(a, b) == Rat(a[1] * b[2] + b[1] * a[2], a[2] * b[2])

RNeg(a) == <<0 - a[1], a[2]>>

RSub(a, b) == RAdd(a, RNeg(b))

RMul(a, b) == Rat(a[1] * b[1], a[2] * b[2])

RDiv(a, b) == Rat(a[1] * b[2], a[2] * b[1])

RLt(a, b) == a[1] * b[2] < b[1] * a[2]

ISqrt(n) == CHOOSE r \in 0..n : r * r = n

\* the square root of a rational that is the square of a rational
RSqrt(a) == <<ISqrt(a[1]), ISqrt(a[2])>>

\* ------------------------------------------------------ dense linear algebra
\* vectors are sequences of rationals; a matrix is the sequence of its rows
RECURSIVE DotFrom(_, _, _)
DotFrom(u, v, i) ==
    IF i > Len(u) THEN RZero ELSE RAdd(RMul(u[i], v[i]), DotFrom(u, v, i + 1))

\* dot(u, v)
Dot(u, v) == DotFrom(u, v, 1)

NormSq(v) == Dot(v, v)

\* norm(v)
Norm(v) == RSqrt(NormSq(v))

VecSub(u, v) == [i \in 1..Len(u) |-> RSub(u[i], v[i])]

VecAdd(u, v) == [i \in 1..Len(u) |-> RAdd(u[i], v[i])]

VecScale(c, v) == [i \in 1..Len(v) |-> RMul(c, v[i])]

VecDiv(v, c) == [i \in 1..Len(v) |-> RDiv(v[i], c)]

\* A * v
MatVec(A, v) == [i \in 1..Len(A) |-> Dot(A[i], v)]

Transpose(M) == [j \in 1..Len(M[1]) |-> [i \in 1..Len(M) |-> M[i][j]]]

MatMul(A, B) ==
    LET Bt == Transpose(B)
    IN  [i \in 1..Len(A) |-> [j \in 1..Len(Bt) |-> Dot(A[i], Bt[j])]]

\* one Gauss-Jordan pass over the augmented matrix Aug (last column the
\* right-hand side): returns the reduced matrix and the pivot row of each
\* column (0 for a free column)
RECURSIVE GaussJordan(_, _, _, _)
GaussJordan(Aug, r, c, piv) ==
    IF c > Len(Aug[1]) - 1 \/ r > Len(Aug) THEN [aug |-> Aug, piv |-> piv]
    ELSE LET cand == { p \in r..Len(Aug) : Aug[p][c] # RZero }
         IN  IF cand = {} THEN GaussJordan(Aug, r, c + 1, piv)
             ELSE LET p == CHOOSE q \in cand : \A q2 \in cand : q <= q2
                      swapped == [Aug EXCEPT ![r] = Aug[p], ![p] = Aug[r]]
                      prow == VecDiv(swapped[r], swapped[r][c])
                      cleared == [i \in 1..Len(Aug) |->
                                     IF i = r THEN prow
                                     ELSE VecSub(swapped[i], VecScale(swapped[i][c], prow))]
                  IN  GaussJordan(cleared, r + 1, c + 1, [piv EXCEPT ![c] = r])

\* a solution of the consistent square system G z = d (free unknowns 0)
SolveConsistent(G, d) ==
    LET m == Len(G)
        Aug == [i \in 1..m |-> G[i] \o <<d[i]>>]
        gj == GaussJordan(Aug, 1, 1, [c \in 1..m |-> 0])
    IN  [c \in 1..m |-> IF gj.piv[c] = 0 THEN RZero ELSE gj.aug[gj.piv[c]][m + 1]]

\* M \ c for a rectangular M: the minimum-norm least-squares solution
\* y = M' z with (M M')^2 z = (M M') c
LeastSquares(M, c) ==
    LET Mt == Transpose(M)
        G == MatMul(M, Mt)
        z == SolveConsistent(MatMul(G, G), MatVec(G, c))
    IN  MatVec(Mt, z)


\* ------------------------------------------- gmres_basic (notebook export)
\* the inner loop `for j in 1:k`: modified Gram-Schmidt of w against
\* V[:,1..k]; returns the coefficients H[1..k,k] and the remaining w
RECURSIVE GramSchmidt(_, _, _, _, _)
GramSchmidt(V, w, h, j, k) ==
    IF j > k THEN [h |-> h, w |-> w]
    ELSE LET hjk == Dot(V[j], w)
         IN  GramSchmidt(V, VecSub(w, VecScale(hjk, V[j])), Append(h, hjk), j + 1, k)

\* V[:,1:k] * y
RECURSIVE BasisCombination(_, _, _, _)
BasisCombination(V, y, j, acc) ==
    IF j > Len(y) THEN acc
    ELSE BasisCombination(V, y, j + 1, VecAdd(acc, VecScale(y[j], V[j])))

ZeroVec(n) == [i \in 1..n |-> RZero]

\* rnorm < tol, with rnorm >= 0 held by its square
NormBelow(rnormSq, tol) == RLt(RZero, tol) /\ RLt(rnormSq, RMul(tol, tol))

\* variant of GmresBasicSetup whose early return hands back an empty history
GmresBasicSetupEmptyHistory(A, b, x0, maxit, tol) ==
    LET n == Len(A)
        x == x0
        r0 == VecSub(b, MatVec(A, x))
        beta == Norm(r0)
    IN  IF beta = RZero
        THEN [pc |-> "done", A |-> A, b |-> b, x0 |-> x0, maxit |-> maxit, tol |-> tol,
              x |-> x, beta |-> beta, k |-> 0,
              V |-> << >>, H |-> << >>,
              res_hist |-> << >>, res_fields |-> << >>,
              ret |-> [x |-> x, res_hist |-> << >>, res_fields |-> << >>]]
        ELSE [pc |-> "loop", A |-> A, b |-> b, x0 |-> x0, maxit |-> maxit, tol |-> tol,
              x |-> x, beta |-> beta, k |-> 0,
              V |-> [j \in 1..(maxit + 1) |-> IF j = 1 THEN VecDiv(r0, beta) ELSE ZeroVec(n)],
              H |-> [i \in 1..(maxit + 1) |-> [j \in 1..maxit |-> RZero]],
              res_hist |-> <<RMul(beta, beta)>>, res_fields |-> << >>,
              ret |-> << >>]

\* variant of GmresBasicSetup that also returns early when the initial
\* residual norm is below tol
GmresBasicSetupTestingTol(A, b, x0, maxit, tol) ==
    LET n == Len(A)
        x == x0
        r0 == VecSub(b, MatVec(A, x))
        beta == Norm(r0)
    IN  IF beta = RZero
        THEN [pc |-> "done", A |-> A, b |-> b, x0 |-> x0, maxit |-> maxit, tol |-> tol,
              x |-> x, beta |-> beta, k |-> 0,
              V |-> << >>, H |-> << >>,
              res_hist |-> <<RZero>>, res_fields |-> << >>,
              ret |-> [x |-> x, res_hist |-> <<RZero>>, res_fields |-> << >>]]
        ELSE IF NormBelow(RMul(beta, beta), tol)
        THEN [pc |-> "done", A |-> A, b |-> b, x0 |-> x0, maxit |-> maxit, tol |-> tol,
              x |-> x, beta |-> beta, k |-> 0,
              V |-> << >>, H |-> << >>,
              res_hist |-> <<RMul(beta, beta)>>, res_fields |-> << >>,
              ret |-> [x |-> x, res_hist |-> <<RMul(beta, beta)>>, res_fields |-> << >>]]
        ELSE [pc |-> "loop", A |-> A, b |-> b, x0 |-> x0, maxit |-> maxit, tol |-> tol,
              x |-> x, beta |-> beta, k |-> 0,
              V |-> [j \in 1..(maxit + 1) |-> IF j = 1 THEN VecDiv(r0, beta) ELSE ZeroVec(n)],
              H |-> [i \in 1..(maxit + 1) |-> [j \in 1..maxit |-> RZero]],
              res_hist |-> <<RMul(beta, beta)>>, res_fields |-> << >>,
              ret |-> << >>]

\* lines 179-184: the frame after the initial residual
GmresBasicSetup(A, b, x0, maxit, tol) ==
    LET n == Len(A)
        x == x0
        r0 == VecSub(b, MatVec(A, x))
        beta == Norm(r0)
    IN  IF beta = RZero
        THEN [pc |-> "done", A |-> A, b |-> b, x0 |-> x0, maxit |-> maxit, tol |-> tol,
              x |-> x, beta |-> beta, k |-> 0,
              V |-> << >>, H |-> << >>,
              res_hist |-> <<RZero>>, res_fields |-> << >>,
              ret |-> [x |-> x, res_hist |-> <<RZero>>, res_fields |-> << >>]]
        ELSE [pc |-> "loop", A |-> A, b |-> b, x0 |-> x0, maxit |-> maxit, tol |-> tol,
              x |-> x, beta |-> beta, k |-> 0,
              V |-> [j \in 1..(maxit + 1) |-> IF j = 1 THEN VecDiv(r0, beta) ELSE ZeroVec(n)],
              H |-> [i \in 1..(maxit + 1) |-> [j \in 1..maxit |-> RZero]],
              res_hist |-> <<RMul(beta, beta)>>, res_fields |-> << >>,
              ret |-> << >>]

\* variant of GmresBasicIteration that repeats the pass without advancing k
GmresBasicIterationStuck(f, k) ==
    LET rk == VecSub(f.b, MatVec(f.A, f.x))
        rnormSq == NormSq(rk)
    IN  [f EXCEPT !.res_fields = Append(f.res_fields, rk),
                  !.res_hist = Append(f.res_hist, rnormSq),
                  !.pc = IF NormBelow(rnormSq, f.tol) THEN "break" ELSE "loop"]

\* variant of GmresBasicIteration without the break of line 198
GmresBasicIterationNoBreak(f, k) ==
    LET w0 == MatVec(f.A, f.V[k])
        gs == GramSchmidt(f.V, w0, << >>, 1, k)
        hk1 == Norm(gs.w)
        H1 == [i \in 1..(f.maxit + 1) |-> [j \in 1..f.maxit |->
                  IF j # k THEN f.H[i][j]
                  ELSE IF i <= k THEN gs.h[i]
                  ELSE IF i = k + 1 THEN hk1
                  ELSE f.H[i][j]]]
        V1 == IF RLt(RZero, hk1) /\ k < f.maxit
              THEN [f.V EXCEPT ![k + 1] = VecDiv(gs.w, hk1)]
              ELSE f.V
        e1 == [i \in 1..(k + 1) |-> IF i = 1 THEN f.beta ELSE RZero]
        y == LeastSquares([i \in 1..(k + 1) |-> [j \in 1..k |-> H1[i][j]]], e1)
        x == BasisCombination(V1, y, 1, f.x0)
        rk == VecSub(f.b, MatVec(f.A, x))
        rnormSq == NormSq(rk)
    IN  [f EXCEPT !.k = k, !.H = H1, !.V = V1, !.x = x,
                  !.res_fields = Append(f.res_fields, rk),
                  !.res_hist = Append(f.res_hist, rnormSq)]

\* variant of GmresBasicIteration that stores norm(w) in H[k+2,k] as well
GmresBasicIterationFillingBelow(f, k) ==
    LET w0 == MatVec(f.A, f.V[k])
        gs == GramSchmidt(f.V, w0, << >>, 1, k)
        hk1 == Norm(gs.w)
        H1 == [i \in 1..(f.maxit + 1) |-> [j \in 1..f.maxit |->
                  IF j # k THEN f.H[i][j]
                  ELSE IF i <= k THEN gs.h[i]
                  ELSE IF i = k + 1 \/ i = k + 2 THEN hk1
                  ELSE f.H[i][j]]]
        V1 == IF RLt(RZero, hk1) /\ k < f.maxit
              THEN [f.V EXCEPT ![k + 1] = VecDiv(gs.w, hk1)]
              ELSE f.V
        e1 == [i \in 1..(k + 1) |-> IF i = 1 THEN f.beta ELSE RZero]
        y == LeastSquares([i \in 1..(k + 1) |-> [j \in 1..k |-> H1[i][j]]], e1)
        x == BasisCombination(V1, y, 1, f.x0)
        rk == VecSub(f.b, MatVec(f.A, x))
        rnormSq == NormSq(rk)
    IN  [f EXCEPT !.k = k, !.H = H1, !.V = V1, !.x = x,
                  !.res_fields = Append(f.res_fields, rk),
                  !.res_hist = Append(f.res_hist, rnormSq),
                  !.pc = IF NormBelow(rnormSq, f.tol) THEN "break" ELSE "loop"]

\* lines 186-198: the body of `for k in 1:maxit` for iteration k
GmresBasicIteration(f, k) ==
    LET w0 == MatVec(f.A, f.V[k])
        gs == GramSchmidt(f.V, w0, << >>, 1, k)
        hk1 == Norm(gs.w)
        H1 == [i \in 1..(f.maxit + 1) |-> [j \in 1..f.maxit |->
                  IF j # k THEN f.H[i][j]
                  ELSE IF i <= k THEN gs.h[i]
                  ELSE IF i = k + 1 THEN hk1
                  ELSE f.H[i][j]]]
        V1 == IF RLt(RZero, hk1) /\ k < f.maxit
              THEN [f.V EXCEPT ![k + 1] = VecDiv(gs.w, hk1)]
              ELSE f.V
        e1 == [i \in 1..(k + 1) |-> IF i = 1 THEN f.beta ELSE RZero]
        y == LeastSquares([i \in 1..(k + 1) |-> [j \in 1..k |-> H1[i][j]]], e1)
        x == BasisCombination(V1, y, 1, f.x0)
        rk == VecSub(f.b, MatVec(f.A, x))
        rnormSq == NormSq(rk)
    IN  [f EXCEPT !.k = k, !.H = H1, !.V = V1, !.x = x,
                  !.res_fields = Append(f.res_fields, rk),
                  !.res_hist = Append(f.res_hist, rnormSq),
                  !.pc = IF NormBelow(rnormSq, f.tol) THEN "break" ELSE "loop"]

\* ------------------------------------------------- gmres_solve (solvers.py)
\* a residual norm handed over by SciPy is a rational or a non-finite float,
\* written with denominator 0
NaN == <<0, 0>>

PosInf == <<1, 0>>

IsFinite(r) == r[2] # 0

\* b_norm = float(np.linalg.norm(rhs)) or 1.0   (src/src/solvers.py)
BNorm(rhs_norm) == IF rhs_norm = RZero THEN RInt(1) ELSE rhs_norm

\* the value _callback appends: the norm (python/helmholtz_basics) or the
\* norm relative to b_norm (src/src)
LoggedNorm(s, residual) ==
    IF s.variant = "src" /\ IsFinite(residual) THEN RDiv(residual, BNorm(s.rhs_norm))
    ELSE residual

\* a call of the user callback: its argument and the residuals list as the
\* callback finds it
UserCall(residual, residuals) == [residual |-> residual, residuals |-> residuals]

\* variant of SolveCallback that calls the user callback before appending
SolveCallbackUserFirst(s, residual) ==
    [s EXCEPT !.residuals = Append(s.residuals, LoggedNorm(s, residual)),
              !.user_calls = IF s.has_callback
                             THEN Append(s.user_calls, UserCall(residual, s.residuals))
                             ELSE s.user_calls]

\* _callback(residual): append the norm, then call the user callback
SolveCallback(s, residual) ==
    LET appended == Append(s.residuals, LoggedNorm(s, residual))
    IN  [s EXCEPT !.residuals = appended,
                  !.user_calls = IF s.has_callback
                                 THEN Append(s.user_calls, UserCall(residual, appended))
                                 ELSE s.user_calls]

\* scipy_gmres ends an iteration: it calls _callback with the residual norm
\* and tests the norm against the tolerance
ScipyReport(s, residual) ==
    [SolveCallback(s, residual) EXCEPT
        !.it = s.it + 1,
        !.reached = IsFinite(residual) /\ ~RLt(s.tol, residual)]

\* converged = info == 0; return SolverResult(...)
SolverResult(s, info) ==
    [s EXCEPT !.pc = "returned",
              !.ret = [residuals |-> s.residuals, converged |-> (info = 0), info |-> info]]

\* variant of ScipyShapesCompatible that only rejects a right-hand side that
\* is too short
ScipyShapesAtLeast(rows, rhs_len) == rows <= rhs_len

\* scipy_gmres accepts the system when rhs has one entry per row of matrix
ScipyShapesCompatible(rows, rhs_len) == rows = rhs_len

\* b - A*x is defined when b has one entry per row of A
JuliaShapesMatch(A, b) == Len(b) = Len(A)

\* the DimensionMismatch thrown by line 180 leaves gmres_basic with nothing
\* recorded and nothing returned
GmresBasicThrow(f) ==
    [pc |-> "raised", exc |-> "DimensionMismatch", A |-> f.A, b |-> f.b, x0 |-> f.x0,
     maxit |-> f.maxit, tol |-> f.tol, k |-> 0, res_hist |-> << >>, ret |-> << >>]

\* an exception leaving gmres_solve: there is no try block, so the frame
\* with its local residuals list is unwound and no SolverResult is built
SolveRaise(s, exc) == [s EXCEPT !.pc = "raised", !.exc = exc, !.ret = << >>]

\* gmres_solve up to the call of scipy_gmres: opts, residuals = []
GmresSolveSetup(variant, rows, rhs_len, rhs_norm, tol, maxiter, has_callback) ==
    [pc |-> "running", variant |-> variant, rows |-> rows, rhs_len |-> rhs_len,
     exc |-> None, rhs_norm |-> rhs_norm, tol |-> tol,
     maxiter |-> maxiter, has_callback |-> has_callback,
     residuals |-> << >>, user_calls |-> << >>,
     it |-> 0, reached |-> (rhs_norm = RZero), ret |-> << >>]

\* ------------------------------------------------ GridSpec (config.py, both)
\* Python's float comparisons: every comparison with nan is False
FloatLe(a, b) == IsFinite(a) /\ IsFinite(b) /\ ~RLt(b, a)

FloatGt(a, b) == IsFinite(a) /\ IsFinite(b) /\ RLt(b, a)

\* any(n <= 1 for n in self.shape)
AnyNodesLeOne(shape) == \E i \in 1..Len(shape) : shape[i] <= 1

\* any(L <= 0 for L in self.lengths)
AnyLengthLeZero(lengths) == \E i \in 1..Len(lengths) : FloatLe(lengths[i], RZero)

\* GridSpec.__post_init__ of src/src/config.py: the message raised, or None
PostInit(dims, shape, lengths) ==
    IF ~(1 <= dims /\ dims <= 3) THEN "Only 1D, 2D, or 3D grids are supported"
    ELSE IF Len(shape) # dims THEN "shape must match the number of dimensions"
    ELSE IF Len(lengths) # dims THEN "lengths must match the number of dimensions"
    ELSE IF AnyNodesLeOne(shape) THEN "each dimension needs at least two nodes"
    ELSE IF AnyLengthLeZero(lengths) THEN "domain lengths must be positive"
    ELSE None

\* GridSpec.__post_init__ of python/helmholtz_basics/config.py
LegacyPostInit(dims, shape, lengths) ==
    IF dims < 1 \/ dims > 3 THEN "Only 1D, 2D, or 3D grids are supported"
    ELSE IF Len(shape) # dims THEN "shape must provide one entry per dimension"
    ELSE IF Len(lengths) # dims THEN "lengths must provide one entry per dimension"
    ELSE IF AnyNodesLeOne(shape) THEN "each grid dimension must have more than one node"
    ELSE IF AnyLengthLeZero(lengths) THEN "domain lengths must be positive"
    ELSE None

\* L / (n - 1) on floats
FloatDiv(a, n) == IF IsFinite(a) THEN RDiv(a, RInt(n)) ELSE a

\* GridSpec.spacing
FloatSpacing(shape, lengths) ==
    [a \in 1..Len(shape) |-> FloatDiv(lengths[a], shape[a] - 1)]

\* GridSpec(dims, shape, lengths): the dataclass stores the three fields and
\* runs __post_init__; an exception leaves no object
NewGridSpec(args, error) ==
    IF error # None
    THEN [pc |-> "raised", args |-> args, error |-> error, obj |-> << >>]
    ELSE [pc |-> "constructed", args |-> args, error |-> None,
          obj |-> [dims |-> args.dims, shape |-> args.shape, lengths |-> args.lengths]]

\* every sequence over S of at most n entries
RECURSIVE SeqsUpTo(_, _)
SeqsUpTo(S, n) ==
    IF n = 0 THEN { << >> }
    ELSE LET shorter == SeqsUpTo(S, n - 1)
         IN  shorter \cup { Append(q, x) : q \in { t \in shorter : Len(t) = n - 1 }, x \in S }

\* ------------------------------------------------ PlaneWaveSource (loads.py)
\* self.direction[: grid.dims]
Restrict(direction, dims) ==
    [a \in 1..(IF Len(direction) < dims THEN Len(direction) ELSE dims) |-> direction[a]]

\* np.linalg.norm(direction) ** 2
RECURSIVE SumSquaresFrom(_, _)
SumSquaresFrom(d, a) == IF a > Len(d) THEN 0 ELSE d[a] * d[a] + SumSquaresFrom(d, a + 1)

DirectionNormSq(d) == SumSquaresFrom(d, 1)

\* np.linspace(0.0, L, n)[i]
Linspace(L, n, i) == Rat(i * L, n - 1)

\* sum of axis * component over the axes, at one node, before the division
\* of the components by the norm
RECURSIVE PhaseDotFrom(_, _, _, _)
PhaseDotFrom(g, d, idx, a) ==
    IF a > g.dims THEN RZero
    ELSE RAdd(RMul(Linspace(g.lengths[a], g.shape[a], idx[a]), RInt(d[a])),
              PhaseDotFrom(g, d, idx, a + 1))

PhaseDot(g, d, idx) == PhaseDotFrom(g, d, idx, 1)

\* exp(1j * (phase_field + phase)) is kept symbolic: <<dot, normSq, phase>>
\* stands for exp(1j * (dot / sqrt(normSq) + phase)); a component divided by
\* a zero norm is 0/0 = nan, and so is every value computed from it
\* (entry i of the sequence is values.reshape(-1)[i - 1])
PlaneWaveValues(g, d, phase) ==
    LET normSq == DirectionNormSq(d)
        nodes == NdIndex(g.shape)
    IN  [i \in 1..Len(nodes) |->
            IF normSq = 0 THEN NaN ELSE <<PhaseDot(g, d, nodes[i]), normSq, phase>>]

\* PlaneWaveSource.build(grid) of src/src/loads.py: the error raised (or
\* None) and the vector returned
PlaneWaveBuild(src, g) ==
    IF Len(src.direction) < g.dims
    THEN [error |-> "ValueError: direction must have one entry per dimension", rhs |-> << >>]
    ELSE LET direction == Restrict(src.direction, g.dims)
         IN  IF DirectionNormSq(direction) = 0
             THEN [error |-> "ValueError: direction must be non-zero", rhs |-> << >>]
             ELSE [error |-> None, rhs |-> PlaneWaveValues(g, direction, src.phase)]

\* PlaneWaveSource.build(grid) of python/helmholtz_basics/loads.py: the norm
\* is not tested; np.tensordot raises on a direction with too few entries
LegacyPlaneWaveBuild(src, g) ==
    LET direction == Restrict(src.direction, g.dims)
    IN  IF Len(direction) # g.dims
        THEN [error |-> "ValueError: shape-mismatch for sum", rhs |-> << >>]
        ELSE [error |-> None, rhs |-> PlaneWaveValues(g, direction, src.phase)]

\* ------------------------------------------------------------ state machine
Wavenumbers == 0..MaxK

NoResult == [entry |-> None, kind |-> None, bc |-> None, k |-> 0, matrix |-> << >>,
             error |-> None]

NoLoad == [name |-> None]

\* whether the coordinate m / CoordDen is exactly on a node of the axis
OnNode(m, h, n) == \E i \in 0..(n - 1) : m * h[2] = i * CoordDen * h[1]

\* coordinates from just outside the domain on both sides, in steps of
\* 1/CoordDen: a node, displaced along at most one axis
Coords(g) ==
    { x \in [1..g.dims -> (0 - 1)..(CoordDen * MaxLength + 1)] :
        /\ \A a \in 1..g.dims : x[a] <= CoordDen * g.lengths[a] + 1
        /\ Cardinality({ a \in 1..g.dims :
                ~OnNode(x[a], GridSpacing(g)[a], g.shape[a]) }) <= 1 }

Locations(g) ==
    {[kind |-> "centre", at |-> << >>], [kind |-> "origin", at |-> << >>]}
    \cup {[kind |-> "coords", at |-> x] : x \in Coords(g)}

Amplitudes == {0, 3}

Idle == result = NoResult /\ load = NoLoad

NoSolve == [pc |-> "idle"]

Init ==
    /\ grid \in Grids
    /\ result = NoResult
    /\ load = NoLoad
    /\ rhs = << >>
    /\ gm = NoSolve
    /\ sv = NoSolve
    /\ drv = NoSolve
    /\ conc = NoSolve

CallHelmholtzOperator ==
    /\ Idle
    /\ \E k \in Wavenumbers, bc \in BoundaryKinds :
        result' = HelmholtzOperatorCall(grid, k, bc)
    /\ UNCHANGED <<grid, load, rhs, gm, sv, drv, conc>>

CallLaplacianOperator ==
    /\ Idle
    /\ \E bc \in BoundaryKinds :
        result' = LaplacianOperatorCall(grid, bc)
    /\ UNCHANGED <<grid, load, rhs, gm, sv, drv, conc>>

CallFDAssemble ==
    /\ Idle
    /\ \E bc \in BoundaryKinds, wavenumber \in {<< >>, <<MaxK>>}, k \in {<< >>, <<0>>, <<1>>} :
        result' = FDAssembleCall(grid, bc, wavenumber, k)
    /\ UNCHANGED <<grid, load, rhs, gm, sv, drv, conc>>

CallLegacyFDAssemble ==
    /\ Idle
    /\ \E k \in Wavenumbers :
        result' = Returned("legacy.FiniteDifference.assemble", "dirichlet", "dirichlet", k,
                           LegacyFDAssemble(grid, k))
    /\ UNCHANGED <<grid, load, rhs, gm, sv, drv, conc>>

CallPointSourceBuild ==
    /\ Idle
    /\ \E location \in Locations(grid), amplitude \in Amplitudes :
        /\ load' = [name |-> "point_source", module |-> "src", location |-> location,
                    amplitude |-> amplitude, error |-> None]
        /\ rhs' = PointSourceBuild(load', grid)
    /\ UNCHANGED <<grid, result, gm, sv, drv, conc>>

CallLegacyPointSourceBuild ==
    /\ Idle
    /\ \E x \in Coords(grid), amplitude \in Amplitudes \ {0} :
        /\ load' = [name |-> "point_source", module |-> "python",
                    location |-> [kind |-> "coords", at |-> x],
                    amplitude |-> amplitude, error |-> None]
        /\ rhs' = LegacyPointSourceBuild(load', grid)
    /\ UNCHANGED <<grid, result, gm, sv, drv, conc>>

\* directions with one entry too few, one per dimension, or one too many
Directions(g) ==
    { d \in SeqsUpTo({0, 1}, g.dims + 1) : Len(d) >= g.dims - 1 }

Phases == {1}

CallPlaneWaveBuild ==
    /\ Idle
    /\ \E direction \in Directions(grid), phase \in Phases :
        LET src == [name |-> "plane_wave", module |-> "src", direction |-> direction,
                    phase |-> phase, error |-> None]
            out == PlaneWaveBuild(src, grid)
        IN  /\ load' = [src EXCEPT !.error = out.error]
            /\ rhs' = out.rhs
    /\ UNCHANGED <<grid, result, gm, sv, drv, conc>>

CallLegacyPlaneWaveBuild ==
    /\ Idle
    /\ \E direction \in Directions(grid), phase \in Phases :
        LET src == [name |-> "plane_wave", module |-> "python", direction |-> direction,
                    phase |-> phase, error |-> None]
            out == LegacyPlaneWaveBuild(src, grid)
        IN  /\ load' = [src EXCEPT !.error = out.error]
            /\ rhs' = out.rhs
    /\ UNCHANGED <<grid, result, gm, sv, drv, conc>>

Next ==
    \/ CallHelmholtzOperator
    \/ CallLaplacianOperator
    \/ CallFDAssemble
    \/ CallLegacyFDAssemble
    \/ CallPointSourceBuild
    \/ CallLegacyPointSourceBuild
    \/ CallPlaneWaveBuild
    \/ CallLegacyPlaneWaveBuild

Spec == Init /\ [][Next]_vars

\* ------------------------------------------------------ solver state machine
Entries == {0, 1}

\* 2 x 2 operators with entries in Entries
Operators ==
    { << <<RInt(a), RInt(b)>>, <<RInt(c), RInt(d)>> >> : a \in Entries, b \in Entries,
                                                        c \in Entries, d \in Entries }

RhsVectors == { <<RInt(0), RInt(0)>>, <<RInt(1), RInt(0)>>, <<RInt(0), RInt(2)>> }

InitialGuesses == { <<RInt(0), RInt(0)>>, <<RInt(1), RInt(0)>>, <<RInt(0), RInt(0 - 1)>> }

Tolerances == { RInt(0), <<1, 2>>, RInt(3) }

\* the initial residual is a multiple of a unit vector, so that every norm
\* of the run is a rational
ExactStart(A, b, x0) ==
    Cardinality({ i \in 1..Len(b) : VecSub(b, MatVec(A, x0))[i] # RZero }) <= 1

\* right-hand sides with one entry too few or too many for the operators
MismatchedRhs == { <<RInt(1)>>, <<RInt(0), RInt(0), RInt(0)>> }

GmresBasicCalls ==
    { c \in [pc : {"start"}, A : Operators, b : RhsVectors, x0 : InitialGuesses,
             maxit : 0..MaxIt, tol : Tolerances] : ExactStart(c.A, c.b, c.x0) }
    \cup [pc : {"start"}, A : Operators, b : MismatchedRhs, x0 : {ZeroVec(2)},
          maxit : {0, MaxIt}, tol : {RInt(3)}]

ResidualNorms == { RInt(0), RInt(1), RInt(4), NaN, PosInf }

GmresSolveCalls ==
    { GmresSolveSetup(variant, 2, rhs_len, rhs_norm, tol, maxiter, cb) :
        variant \in {"python", "src"}, rhs_len \in 1..3, rhs_norm \in {RInt(0), RInt(2)},
        tol \in {<<1, 2>>, RInt(2)}, maxiter \in 1..MaxIt, cb \in BOOLEAN }

NoGrid == [dims |-> 0, shape |-> << >>, lengths |-> << >>]

InitSolvers ==
    /\ grid = NoGrid
    /\ result = NoResult
    /\ load = NoLoad
    /\ rhs = << >>
    /\ \/ gm \in GmresBasicCalls /\ sv = NoSolve
       \/ gm = NoSolve /\ sv \in GmresSolveCalls
    /\ drv = NoSolve
    /\ conc = NoSolve

\* gmres_basic, lines 179-184
GmresBasicStart ==
    /\ gm.pc = "start"
    /\ gm' = IF JuliaShapesMatch(gm.A, gm.b)
             THEN GmresBasicSetup(gm.A, gm.b, gm.x0, gm.maxit, gm.tol)
             ELSE GmresBasicThrow(gm)
    /\ UNCHANGED <<asmVars, sv, drv, conc>>

\* one pass of the loop body, lines 186-198
GmresBasicStep ==
    /\ gm.pc = "loop"
    /\ gm.k < gm.maxit
    /\ gm' = GmresBasicIteration(gm, gm.k + 1)
    /\ UNCHANGED <<asmVars, sv, drv, conc>>

\* line 200, after the break or after the last pass
GmresBasicReturn ==
    /\ gm.pc = "break" \/ (gm.pc = "loop" /\ gm.k = gm.maxit)
    /\ gm' = [gm EXCEPT !.pc = "done",
                       !.ret = [x |-> gm.x, res_hist |-> gm.res_hist,
                                res_fields |-> gm.res_fields]]
    /\ UNCHANGED <<asmVars, sv, drv, conc>>

\* SciPy completes an iteration and reports its residual through _callback
ScipyIteration ==
    /\ sv.pc = "running"
    /\ ScipyShapesCompatible(sv.rows, sv.rhs_len)
    /\ ~sv.reached
    /\ sv.it < sv.maxiter
    /\ \E residual \in ResidualNorms : sv' = ScipyReport(sv, residual)
    /\ UNCHANGED <<asmVars, gm, drv, conc>>

\* scipy_gmres returns (solution, info): 0 when the tolerance was reached,
\* the iteration count when maxiter ran out
ScipyReturn ==
    /\ sv.pc = "running"
    /\ ScipyShapesCompatible(sv.rows, sv.rhs_len)
    /\ sv.reached \/ sv.it = sv.maxiter
    /\ sv' = SolverResult(sv, IF sv.reached THEN 0 ELSE sv.it)
    /\ UNCHANGED <<asmVars, gm, drv, conc>>

\* scipy_gmres raises ValueError on a right-hand side of the wrong length,
\* before its first iteration
ScipyRejectsShapes ==
    /\ sv.pc = "running"
    /\ sv.it = 0
    /\ ~ScipyShapesCompatible(sv.rows, sv.rhs_len)
    /\ sv' = SolveRaise(sv, "ValueError")
    /\ UNCHANGED <<asmVars, gm, drv, conc>>

\* the user callback raises when _callback calls it, after the norm of the
\* iteration has been appended
UserCallbackRaises ==
    /\ sv.pc = "running"
    /\ ScipyShapesCompatible(sv.rows, sv.rhs_len)
    /\ ~sv.reached
    /\ sv.it < sv.maxiter
    /\ sv.has_callback
    /\ \E residual \in ResidualNorms :
           sv' = SolveRaise([SolveCallback(sv, residual) EXCEPT !.it = sv.it + 1],
                            "CallbackError")
    /\ UNCHANGED <<asmVars, gm, drv, conc>>

NextSolvers ==
    \/ GmresBasicStart
    \/ GmresBasicStep
    \/ GmresBasicReturn
    \/ ScipyIteration
    \/ ScipyReturn
    \/ ScipyRejectsShapes
    \/ UserCallbackRaises

SpecSolvers == InitSolvers /\ [][NextSolvers]_vars

\* ---------------------------------------------------- GridSpec construction
\* one dimension more than GridSpec supports
MaxDims == 4

LengthValues == { RInt(0 - 1), RInt(0), RInt(MaxLength), NaN }

GridSpecArgs ==
    [dims : 0..MaxDims, shape : SeqsUpTo(1..MaxNodes, 3), lengths : SeqsUpTo(LengthValues, 3)]

InitGrid ==
    /\ grid \in [pc : {"args"}, variant : {"src", "python"}, args : GridSpecArgs]
    /\ result = NoResult
    /\ load = NoLoad
    /\ rhs = << >>
    /\ gm = NoSolve
    /\ sv = NoSolve
    /\ drv = NoSolve
    /\ conc = NoSolve

ConstructGridSpec ==
    /\ grid.pc = "args"
    /\ grid.variant = "src"
    /\ grid' = NewGridSpec(grid.args,
                           PostInit(grid.args.dims, grid.args.shape, grid.args.lengths))
    /\ UNCHANGED <<result, load, rhs, gm, sv, drv, conc>>

ConstructLegacyGridSpec ==
    /\ grid.pc = "args"
    /\ grid.variant = "python"
    /\ grid' = NewGridSpec(grid.args,
                           LegacyPostInit(grid.args.dims, grid.args.shape, grid.args.lengths))
    /\ UNCHANGED <<result, load, rhs, gm, sv, drv, conc>>

NextGrid ==
    \/ ConstructGridSpec
    \/ ConstructLegacyGridSpec

SpecGrid == InitGrid /\ [][NextGrid]_vars

\* ------------------------------------ SweepConfig.iter_configs, run_experiment
\* entries per sequence of a sweep
MaxSweep == 2

\* HelmholtzConfig(...) as iter_configs of src/src/config.py builds it
SrcHelmholtzConfig(s, g, k, ld, disc) ==
    [wavenumber |-> k, grid |-> g, load |-> ld, discretisation |-> disc,
     label |-> None, metadata |-> s.annotations]

\* HelmholtzConfig(...) as iter_configs of python/helmholtz_basics/config.py
\* builds it: the class has no label and no metadata field
LegacyHelmholtzConfig(s, g, k, ld, disc) ==
    [wavenumber |-> k, grid |-> g, load |-> ld, discretisation |-> disc,
     boundary |-> [kind |-> "dirichlet", value |-> 0]]

\* variant of Seek that leaves the wavenumber loop when the loads of one
\* wavenumber are done
RECURSIVE SeekLeavingEarly(_, _, _, _, _)
SeekLeavingEarly(s, gi, ki, li, di) ==
    IF gi > Len(s.grids) THEN << >>
    ELSE IF ki > Len(s.wavenumbers) THEN SeekLeavingEarly(s, gi + 1, 1, 1, 1)
    ELSE IF li > Len(s.loads) THEN SeekLeavingEarly(s, gi + 1, 1, 1, 1)
    ELSE IF di > Len(s.discretisations) THEN SeekLeavingEarly(s, gi, ki, li + 1, 1)
    ELSE <<gi, ki, li, di>>

\* the four nested for loops of iter_configs, resumed with the loop
\* positions (gi, ki, li, di): the positions of the next yield, or << >>
\* when the generator is exhausted
RECURSIVE Seek(_, _, _, _, _)
Seek(s, gi, ki, li, di) ==
    IF gi > Len(s.grids) THEN << >>
    ELSE IF ki > Len(s.wavenumbers) THEN Seek(s, gi + 1, 1, 1, 1)
    ELSE IF li > Len(s.loads) THEN Seek(s, gi, ki + 1, 1, 1)
    ELSE IF di > Len(s.discretisations) THEN Seek(s, gi, ki, li + 1, 1)
    ELSE <<gi, ki, li, di>>

\* the HelmholtzConfig yielded at loop positions `at`
ConfigAt(module, s, at) ==
    IF module = "src"
    THEN SrcHelmholtzConfig(s, s.grids[at[1]], s.wavenumbers[at[2]], s.loads[at[3]],
                            s.discretisations[at[4]])
    ELSE LegacyHelmholtzConfig(s, s.grids[at[1]], s.wavenumbers[at[2]], s.loads[at[3]],
                               s.discretisations[at[4]])

\* next(generator) on iter_configs
IterConfigsResume(f) ==
    LET at == Seek(f.sweep, f.pos[1], f.pos[2], f.pos[3], f.pos[4])
    IN  IF at = << >> THEN [f EXCEPT !.pc = "exhausted"]
        ELSE [f EXCEPT !.pos = <<at[1], at[2], at[3], at[4] + 1>>,
                       !.yielded = Append(f.yielded, ConfigAt(f.module, f.sweep, at))]

\* assemble_operator, build_load and gmres_solve of one case, kept abstract
SolveOf(case) ==
    <<"solver_result", case.grid, case.wavenumber, case.load, case.discretisation>>

\* one pass of the loop of run_experiment, from fetching the case to the
\* yield of its record; reading an attribute the case does not have raises
\* AttributeError; the optional keys of the record are kept in `extras`
RunExperimentResume(f) ==
    LET at == Seek(f.sweep, f.pos[1], f.pos[2], f.pos[3], f.pos[4])
    IN  IF at = << >> THEN [f EXCEPT !.pc = "finished"]
        ELSE LET case == ConfigAt(f.module, f.sweep, at)
                 solved == Append(f.events, <<"solve", case>>)
                 record == [grid |-> case.grid, wavenumber |-> case.wavenumber,
                            load |-> case.load, discretisation |-> case.discretisation,
                            solver_result |-> SolveOf(case),
                            extras |->
                                (IF case.label # None THEN << <<"label", case.label>> >>
                                 ELSE << >>)
                                \o (IF case.metadata # << >>
                                    THEN << <<"metadata", case.metadata>> >>
                                    ELSE << >>)]
             IN  IF "label" \notin DOMAIN case
                 THEN [f EXCEPT !.pc = "raised", !.events = solved,
                                !.error = "AttributeError: no attribute 'label'"]
                 ELSE [f EXCEPT
                         !.pos = <<at[1], at[2], at[3], at[4] + 1>>,
                         !.events = (IF f.sweep.hook
                                     THEN Append(solved, <<"hook", case, SolveOf(case)>>)
                                     ELSE solved) \o << <<"yield", record>> >>,
                         !.records = Append(f.records, record)]

Sweeps ==
    [grids : SeqsUpTo({"g1", "g2"}, MaxSweep), wavenumbers : SeqsUpTo({1, 2}, MaxSweep),
     loads : SeqsUpTo({"point"}, MaxSweep), discretisations : SeqsUpTo({"fd"}, MaxSweep),
     hook : BOOLEAN, annotations : {<< >>}]

InitSweep ==
    /\ grid = NoGrid
    /\ result = NoResult
    /\ load = NoLoad
    /\ rhs = << >>
    /\ gm = NoSolve
    /\ sv = NoSolve
    /\ conc = NoSolve
    /\ \/ drv \in [op : {"iter_configs"}, module : {"src", "python"},
                    sweep : { s \in Sweeps : ~s.hook }, pc : {"running"},
                    pos : {<<1, 1, 1, 1>>}, yielded : {<< >>}]
       \/ drv \in [op : {"run_experiment"}, module : {"python"}, sweep : Sweeps,
                    pc : {"running"}, pos : {<<1, 1, 1, 1>>}, records : {<< >>},
                    events : {<< >>}, error : {None}]

\* the caller takes one more configuration from iter_configs
IterConfigsNext ==
    /\ drv.op = "iter_configs"
    /\ drv.pc = "running"
    /\ drv' = IterConfigsResume(drv)
    /\ UNCHANGED <<asmVars, gm, sv, conc>>

\* the caller takes one more record from run_experiment
RunExperimentNext ==
    /\ drv.op = "run_experiment"
    /\ drv.pc = "running"
    /\ drv' = RunExperimentResume(drv)
    /\ UNCHANGED <<asmVars, gm, sv, conc>>

NextSweep ==
    \/ IterConfigsNext
    \/ RunExperimentNext

SpecSweep == InitSweep /\ [][NextSweep]_vars

\* ------------------------------------------------------- concurrent solves
\* Two invocations of one solver run interleaved on the same operator and
\* right-hand side. Arrays and lists are objects of a heap; a frame holds the
\* addresses of the objects its fields are bound to.
Threads == {1, 2}

\* the caller's operator and right-hand side, passed to both invocations
OperatorRef == 1

RhsRef == 2

\* the caller's initial guess of invocation t
GuessRef(t) == RhsRef + t

\* the fields of a frame bound to heap objects
HeapFields == {"A", "b", "x0", "x", "V", "H", "res_hist", "res_fields", "residuals"}

\* the fields a solver writes into (setindex!, push!, list.append)
WrittenFields == {"V", "H", "res_hist", "res_fields", "residuals"}

\* variant of Alloc that hands out an object already on the heap when one of
\* the same type and content exists
AllocInterned(heap, obj) ==
    IF \E a \in 1..Len(heap) : heap[a].type = obj.type /\ heap[a].val = obj.val
    THEN CHOOSE a \in 1..Len(heap) : heap[a].type = obj.type /\ heap[a].val = obj.val
    ELSE Len(heap) + 1

\* zeros(...), Float64[...], Vector{...}() and [] make a new object each time
\* the statement runs
Alloc(heap, obj) == Len(heap) + 1

\* a new object holding value val: the heap with it and its address
NewObject(heap, type, val) ==
    LET obj == [type |-> type, val |-> val]
        a == Alloc(heap, obj)
    IN  [heap |-> IF a > Len(heap) THEN Append(heap, obj) ELSE heap, ref |-> a]

\* variant of CopyVector that hands back the vector itself
CopyVectorAliasing(heap, a) == [heap |-> heap, ref |-> a]

\* copy(x0): a new vector with the entries of the one at address a
CopyVector(heap, a) == NewObject(heap, "x", heap[a].val)

\* binds the named fields of frame f to objects holding their values
RECURSIVE Allocate(_, _, _)
Allocate(heap, f, names) ==
    IF names = << >> THEN [heap |-> heap, f |-> f]
    ELSE LET obj == [type |-> Head(names), val |-> f[Head(names)]]
             a == Alloc(heap, obj)
         IN  Allocate(IF a > Len(heap) THEN Append(heap, obj) ELSE heap,
                      [f EXCEPT ![Head(names)] = a], Tail(names))

\* the frame with every heap field read through its address
Load(heap, fr) ==
    [n \in DOMAIN fr |-> IF n \in HeapFields THEN heap[fr[n]].val ELSE fr[n]]

\* the heap after the writes of a step that took frame fr to the values f1
Store(heap, fr, f1) ==
    [a \in 1..Len(heap) |->
        IF \E n \in WrittenFields \cap DOMAIN fr : fr[n] = a
        THEN [heap[a] EXCEPT
                 !.val = f1[CHOOSE n \in WrittenFields \cap DOMAIN fr : fr[n] = a]]
        ELSE heap[a]]

\* the frame after the step: local values from f1, heap fields still bound
\* to the objects of fr
Refs(fr, f1) == [n \in DOMAIN f1 |-> IF n \in HeapFields THEN fr[n] ELSE f1[n]]

\* gmres_basic lines 179-184 on the heap: x = copy(x0), r0 and beta are
\* computed from the caller's A, b and x0, then V, H, res_hist and res_fields
\* are allocated (the early return of line 181 allocates the two vectors it
\* returns beside x)
ConcGmresBasicSetup(heap, c, x0ref) ==
    LET A == heap[OperatorRef].val
        b == heap[RhsRef].val
        x0 == heap[x0ref].val
        cp == CopyVector(heap, x0ref)
        f == IF JuliaShapesMatch(A, b)
             THEN GmresBasicSetup(A, b, x0, c.maxit, c.tol)
             ELSE GmresBasicThrow([A |-> A, b |-> b, x0 |-> x0,
                                   maxit |-> c.maxit, tol |-> c.tol])
        bound == IF f.pc = "raised"
                 THEN [f EXCEPT !.A = OperatorRef, !.b = RhsRef, !.x0 = x0ref]
                 ELSE [f EXCEPT !.A = OperatorRef, !.b = RhsRef, !.x0 = x0ref,
                                !.x = cp.ref]
        al == Allocate(cp.heap, bound,
                       IF f.pc = "raised" THEN << >>
                       ELSE <<"V", "H", "res_hist", "res_fields">>)
    IN  IF f.pc = "done"
        THEN [al EXCEPT !.f.ret = [x |-> cp.ref, res_hist |-> al.f.res_hist,
                                   res_fields |-> al.f.res_fields]]
        ELSE al

\* gmres_solve up to the call of scipy_gmres on the heap: residuals = []
ConcGmresSolveSetup(heap, c) ==
    LET A == heap[OperatorRef].val
        b == heap[RhsRef].val
    IN  Allocate(heap,
                 GmresSolveSetup(c.variant, Len(A), Len(b), Norm(b), c.tol,
                                 c.maxiter, c.has_callback),
                 <<"residuals">>)

\* the operators the concurrent solves share
ConcOperators ==
    { A \in Operators : A[1][1] = RInt(1) /\ A[2][2] = RInt(1) /\ A[2][1] = RInt(0) }

ConcGmresBasicArgs ==
    [x0 : {ZeroVec(2), <<RInt(1), RInt(0)>>}, maxit : {1, 2},
     tol : {RInt(0), <<1, 2>>}]

ConcGmresSolveArgs ==
    [variant : {"python", "src"}, tol : {RInt(2)}, maxiter : {1, 2},
     has_callback : {FALSE}]

\* the residual norms SciPy reports in the concurrent runs
ConcResidualNorms == { RInt(1), RInt(4) }

\* an invocation before its first statement; `alone` is the frame of the same
\* call run by itself on the caller's values, advanced with the invocation
NewThread(c) == [call |-> c, fr |-> [pc |-> "start"], alone |-> [pc |-> "start"]]

InitConc ==
    /\ grid = NoGrid
    /\ result = NoResult
    /\ load = NoLoad
    /\ rhs = << >>
    /\ gm = NoSolve
    /\ sv = NoSolve
    /\ drv = NoSolve
    /\ \/ \E A \in ConcOperators, b \in RhsVectors, c1 \in ConcGmresBasicArgs,
             c2 \in ConcGmresBasicArgs :
             /\ ExactStart(A, b, c1.x0)
             /\ ExactStart(A, b, c2.x0)
             /\ conc = [pc |-> "gmres_basic",
                        shared |-> [A |-> A, b |-> b],
                        heap |-> << [type |-> "A", val |-> A], [type |-> "b", val |-> b],
                                    [type |-> "x0", val |-> c1.x0],
                                    [type |-> "x0", val |-> c2.x0] >>,
                        threads |-> <<NewThread(c1), NewThread(c2)>>]
       \/ \E b \in RhsVectors, c1 \in ConcGmresSolveArgs, c2 \in ConcGmresSolveArgs :
             LET A == << <<RInt(1), RInt(0)>>, <<RInt(0), RInt(1)>> >>
             IN  conc = [pc |-> "gmres_solve",
                         shared |-> [A |-> A, b |-> b],
                         heap |-> << [type |-> "A", val |-> A], [type |-> "b", val |-> b] >>,
                         threads |-> <<NewThread(c1), NewThread(c2)>>]

\* invocation t of gmres_basic runs lines 179-184
ConcGmresBasicStart(t) ==
    /\ conc.pc = "gmres_basic"
    /\ conc.threads[t].fr.pc = "start"
    /\ \E al \in {ConcGmresBasicSetup(conc.heap, conc.threads[t].call, GuessRef(t))} :
           conc' = [conc EXCEPT
                      !.heap = al.heap,
                      !.threads[t].fr = al.f,
                      !.threads[t].alone =
                          GmresBasicSetup(conc.shared.A, conc.shared.b,
                                          conc.threads[t].call.x0,
                                          conc.threads[t].call.maxit,
                                          conc.threads[t].call.tol)]
    /\ UNCHANGED <<asmVars, gm, sv, drv>>

\* invocation t of gmres_basic runs one pass of the loop body; line 194
\* binds x to a new vector
ConcGmresBasicStep(t) ==
    /\ conc.pc = "gmres_basic"
    /\ conc.threads[t].fr.pc = "loop"
    /\ conc.threads[t].fr.k < conc.threads[t].fr.maxit
    /\ \E fr \in {conc.threads[t].fr} :
       \E f \in {Load(conc.heap, fr)} :
       \E f1 \in {GmresBasicIteration(f, fr.k + 1)} :
       \E nx \in {NewObject(Store(conc.heap, fr, f1), "x", f1.x)} :
           conc' = [conc EXCEPT
                      !.heap = nx.heap,
                      !.threads[t].fr = [Refs(fr, f1) EXCEPT !.x = nx.ref],
                      !.threads[t].alone =
                          GmresBasicIteration(conc.threads[t].alone,
                                              conc.threads[t].alone.k + 1)]
    /\ UNCHANGED <<asmVars, gm, sv, drv>>

\* invocation t of gmres_basic returns (x, res_hist, res_fields)
ConcGmresBasicReturn(t) ==
    /\ conc.pc = "gmres_basic"
    /\ LET fr == conc.threads[t].fr
       IN  /\ fr.pc = "break" \/ (fr.pc = "loop" /\ fr.k = fr.maxit)
           /\ conc' = [conc EXCEPT
                         !.threads[t].fr.pc = "done",
                         !.threads[t].fr.ret = [x |-> fr.x, res_hist |-> fr.res_hist,
                                                res_fields |-> fr.res_fields],
                         !.threads[t].alone.pc = "done",
                         !.threads[t].alone.ret =
                             [x |-> conc.threads[t].alone.x,
                              res_hist |-> conc.threads[t].alone.res_hist,
                              res_fields |-> conc.threads[t].alone.res_fields]]
    /\ UNCHANGED <<asmVars, gm, sv, drv>>

\* invocation t of gmres_solve runs up to the call of scipy_gmres
ConcGmresSolveStart(t) ==
    /\ conc.pc = "gmres_solve"
    /\ conc.threads[t].fr.pc = "start"
    /\ \E al \in {ConcGmresSolveSetup(conc.heap, conc.threads[t].call)},
          c \in {conc.threads[t].call} :
           conc' = [conc EXCEPT
                      !.heap = al.heap,
                      !.threads[t].fr = al.f,
                      !.threads[t].alone =
                          GmresSolveSetup(c.variant, Len(conc.shared.A),
                                          Len(conc.shared.b), Norm(conc.shared.b),
                                          c.tol, c.maxiter, c.has_callback)]
    /\ UNCHANGED <<asmVars, gm, sv, drv>>

\* SciPy completes an iteration of invocation t and calls its _callback
ConcScipyIteration(t) ==
    /\ conc.pc = "gmres_solve"
    /\ LET fr == conc.threads[t].fr
       IN  /\ fr.pc = "running"
           /\ ScipyShapesCompatible(fr.rows, fr.rhs_len)
           /\ ~fr.reached
           /\ fr.it < fr.maxiter
           /\ \E residual \in ConcResidualNorms :
              \E f \in {Load(conc.heap, fr)} :
              \E f1 \in {ScipyReport(f, residual)} :
                 conc' = [conc EXCEPT
                            !.heap = Store(conc.heap, fr, f1),
                            !.threads[t].fr = Refs(fr, f1),
                            !.threads[t].alone =
                                ScipyReport(conc.threads[t].alone, residual)]
    /\ UNCHANGED <<asmVars, gm, sv, drv>>

\* scipy_gmres returns to invocation t, which builds its SolverResult around
\* its residuals list
ConcScipyReturn(t) ==
    /\ conc.pc = "gmres_solve"
    /\ LET fr == conc.threads[t].fr
       IN  /\ fr.pc = "running"
           /\ ScipyShapesCompatible(fr.rows, fr.rhs_len)
           /\ fr.reached \/ fr.it = fr.maxiter
           /\ \E f \in {Load(conc.heap, fr)}, alone \in {conc.threads[t].alone} :
              \E f1 \in {SolverResult(f, IF fr.reached THEN 0 ELSE fr.it)} :
                 conc' = [conc EXCEPT
                            !.threads[t].fr =
                                [Refs(fr, f1) EXCEPT !.ret.residuals = fr.residuals],
                            !.threads[t].alone =
                                SolverResult(alone, IF alone.reached THEN 0 ELSE alone.it)]
    /\ UNCHANGED <<asmVars, gm, sv, drv>>

NextConc ==
    \E t \in Threads :
        \/ ConcGmresBasicStart(t)
        \/ ConcGmresBasicStep(t)
        \/ ConcGmresBasicReturn(t)
        \/ ConcGmresSolveStart(t)
        \/ ConcScipyIteration(t)
        \/ ConcScipyReturn(t)

SpecConc == InitConc /\ [][NextConc]_vars

\* -------------------------------------------------------- claim vocabulary
Assembled == result.entry # None /\ result.error = None

InteriorIdx(shape) == { idx \in NdIndexSet(shape) : ~OnBoundary(idx, shape) }

BoundaryIdx(shape) == { idx \in NdIndexSet(shape) : OnBoundary(idx, shape) }

Shift(idx, a, d) == [idx EXCEPT ![a] = idx[a] + d]

InvH2Axis(g, a) == InvH2(GridSpacing(g)[a])

RECURSIVE SumInvH2(_, _)
SumInvH2(g, a) == IF a > g.dims THEN 0 ELSE InvH2Axis(g, a) + SumInvH2(g, a + 1)

Neighbours(idx, g) ==
    { FlattenIndex(Shift(idx, a, d), g.shape) : a \in 1..g.dims, d \in {0 - 1, 1} }

UnitRow(M, r) == \A c \in DOMAIN M : M[r][c] = IF c = r THEN Q(1) ELSE 0

\* C1: with Dirichlet boundaries, every row of a boundary multi-index is the
\* unit row (1 on the diagonal, 0 elsewhere), for every grid and wavenumber.
C1_DirichletBoundaryRowsAreUnitRows ==
    (Assembled /\ result.bc = "dirichlet") =>
        \A idx \in BoundaryIdx(grid.shape) :
            UnitRow(result.matrix, FlattenIndex(idx, grid.shape))

\* C2: every interior row carries the stencil of -Laplacian + k^2 I (diagonal
\* sum_a 2/h_a^2 + k^2, neighbour couplings -1/h_a^2) or its negation, for
\* every assembler entry point.
C2_InteriorStencilSign ==
    (Assembled /\ result.entry # "laplacian_operator") =>
        \A idx \in InteriorIdx(grid.shape) :
            LET r == FlattenIndex(idx, grid.shape)
                M == result.matrix
                diag == 2 * SumInvH2(grid, 1) + Q(result.k * result.k)
            IN  \E sign \in {0 - 1, 1} :
                    /\ M[r][r] = sign * diag
                    /\ \A a \in 1..grid.dims : \A d \in {0 - 1, 1} :
                           M[r][FlattenIndex(Shift(idx, a, d), grid.shape)]
                               = (0 - sign) * InvH2Axis(grid, a)

\* C3: helmholtz_operator(grid, k, bc) minus the separately assembled
\* laplacian_operator(grid, bc) has k^2 on the diagonal and 0 elsewhere on
\* every interior row.
C3_HelmholtzMinusLaplacian ==
    (Assembled /\ result.entry = "helmholtz_operator") =>
        LET H == result.matrix
            L == LaplacianOperator(grid, result.bc)
        IN  \A idx \in InteriorIdx(grid.shape) :
                LET r == FlattenIndex(idx, grid.shape)
                IN  \A c \in DOMAIN H :
                        H[r][c] - L[r][c] = IF c = r THEN Q(result.k * result.k) ELSE 0

C3_Witness ==
    /\ result.entry = "helmholtz_operator"
    /\ result.k = 2
    /\ grid.dims = 2
    /\ InteriorIdx(grid.shape) # {}

\* C4: the periodic operator of a 1-D grid is circulant:
\* A[(i+1) mod n, (j+1) mod n] = A[i, j].
C4_PeriodicCirculant ==
    (Assembled /\ result.bc = "periodic" /\ grid.dims = 1) =>
        LET n == grid.shape[1]
            M == result.matrix
        IN  \A i \in 0..(n - 1) : \A j \in 0..(n - 1) :
                M[(i + 1) % n][(j + 1) % n] = M[i][j]

\* the node a coordinate tuple sits on exactly, if any
AtNode(location, g, idx) ==
    /\ location.kind = "coords"
    /\ \A a \in 1..g.dims :
           location.at[a] * GridSpacing(g)[a][2] = idx[a] * CoordDen * GridSpacing(g)[a][1]

Started == gm.pc \in {"loop", "break", "done"}

InitialResidual == VecSub(gm.b, MatVec(gm.A, gm.x0))

SolveActive == sv.pc \in {"running", "returned"}

\* C6: when the initial residual of gmres_basic is zero, the call ends in its
\* set-up with no Arnoldi step: the returned solution is the initial guess
\* and the returned residual history is the single entry 0.
C6_ZeroInitialResidual ==
    (Started /\ InitialResidual = ZeroVec(Len(gm.b))) =>
        /\ gm.pc = "done"
        /\ gm.k = 0
        /\ gm.ret.x = gm.x0
        /\ gm.ret.res_hist = <<RZero>>
        /\ gm.ret.res_fields = << >>

C6_Witness ==
    /\ gm.pc = "done"
    /\ gm.b = ZeroVec(2)
    /\ gm.x0 = ZeroVec(2)
    /\ gm.maxit = MaxIt
    /\ gm.ret.res_hist = <<RZero>>

\* C7: in every solve, at every point and in the result, the residual
\* history starts with the initial residual norm and holds one entry more
\* than the number of completed iterations.
C7_HistoryLength ==
    /\ Started =>
          /\ Len(gm.res_hist) = gm.k + 1
          /\ gm.res_hist[1] = NormSq(InitialResidual)
    /\ SolveActive => Len(sv.residuals) = sv.it + 1

\* C8: gmres_basic never makes more than maxit Arnoldi steps, whatever the
\* operator, right-hand side and tolerance, and its residual history never
\* grows beyond maxit + 1 entries.
C8_AtMostMaxitSteps ==
    Started =>
        /\ gm.k <= gm.maxit
        /\ Len(gm.res_hist) <= gm.maxit + 1
        /\ gm.pc = "done" => Len(gm.ret.res_hist) <= gm.maxit + 1

C8_Witness ==
    /\ gm.pc = "done"
    /\ gm.maxit = MaxIt
    /\ gm.k = MaxIt
    /\ gm.tol = RZero
    /\ Len(gm.ret.res_hist) = MaxIt + 1
    /\ gm.ret.res_hist[MaxIt + 1] # RZero

\* C9: every solve that has ended returned a result with a converged flag
\* and a status code, the flag being true exactly when the status is 0,
\* which is the case exactly when the tolerance was reached.
C9_ConvergedFlagMatchesStatus ==
    /\ gm.pc = "done" =>
          /\ {"converged", "info"} \subseteq DOMAIN gm.ret
          /\ gm.ret.converged <=> (gm.ret.info = 0)
    /\ sv.pc = "returned" =>
          /\ {"converged", "info"} \subseteq DOMAIN sv.ret
          /\ sv.ret.converged <=> (sv.ret.info = 0)
          /\ sv.ret.converged <=> sv.reached

\* C10: no solve goes on, or returns, with a non-finite entry in its
\* residual history.
C10_NonFiniteResidualReported ==
    /\ Started => \A i \in 1..Len(gm.res_hist) : IsFinite(gm.res_hist[i])
    /\ SolveActive => \A i \in 1..Len(sv.residuals) : IsFinite(sv.residuals[i])

\* C11: a solve in which the GMRES routine or the user callback failed ends
\* as a returned result that still holds the residual norms recorded before
\* the failure; it never ends by an exception leaving the solve.
C11_FailureIsTerminalStatus ==
    sv.pc \in {"returned", "raised"} =>
        /\ sv.pc = "returned"
        /\ sv.ret.residuals = sv.residuals

\* C12: a solve whose right-hand side has not one entry per operator row
\* fails with a dimension error, having made no iteration and recorded no
\* residual.
C12_DimensionMismatchFailsFirst ==
    /\ (gm.pc \in {"loop", "break", "done", "raised"} /\ Len(gm.b) # Len(gm.A)) =>
          /\ gm.pc = "raised"
          /\ gm.exc = "DimensionMismatch"
          /\ gm.k = 0
          /\ gm.res_hist = << >>
    /\ (sv.pc \in {"running", "returned", "raised"} /\ sv.rhs_len # sv.rows) =>
          /\ sv.pc # "returned"
          /\ sv.pc = "raised" => sv.exc = "ValueError"
          /\ sv.it = 0
          /\ sv.residuals = << >>
          /\ sv.user_calls = << >>

C12_Witness ==
    \/ gm.pc = "raised" /\ Len(gm.b) = 3 /\ gm.maxit = MaxIt
    \/ sv.pc = "raised" /\ sv.rhs_len = 3 /\ sv.has_callback

SrcEntryPoints == {"helmholtz_operator", "laplacian_operator", "FiniteDifference.assemble"}

\* C14: on each of the three assembly entry points a boundary kind that is
\* none of dirichlet, neumann, periodic ends in an error and no operator,
\* and each of the three kinds yields an operator of grid.size rows.
C14_UnsupportedBoundaryFails ==
    result.entry \in SrcEntryPoints =>
        /\ Lower(result.kind) \notin BCs =>
              /\ result.error # None
              /\ result.matrix = << >>
        /\ result.kind \in BCs =>
              /\ result.error = None
              /\ result.bc = result.kind
              /\ DOMAIN result.matrix = 0..(GridSize(grid) - 1)

C14_Witness ==
    /\ result.entry = "helmholtz_operator"
    /\ result.kind = "robin"
    /\ result.error # None
    /\ grid.dims = 2

\* C13: GridSpec construction succeeds exactly when dims is in 1..3, shape
\* and lengths have dims entries, every shape entry is > 1 and every length
\* is > 0; otherwise it raises and leaves no object.  A constructed grid
\* holds the arguments unchanged and all its spacings are > 0.
C13_GridSpecValidation ==
    grid.pc \in {"constructed", "raised"} =>
        LET a == grid.args
            valid == /\ a.dims \in 1..3
                     /\ Len(a.shape) = a.dims
                     /\ Len(a.lengths) = a.dims
                     /\ \A i \in 1..Len(a.shape) : a.shape[i] > 1
                     /\ \A i \in 1..Len(a.lengths) : FloatGt(a.lengths[i], RZero)
        IN  /\ (grid.pc = "constructed") <=> valid
            /\ grid.pc = "raised" => (grid.error # None /\ grid.obj = << >>)
            /\ grid.pc = "constructed" =>
                  /\ grid.obj = [dims |-> a.dims, shape |-> a.shape, lengths |-> a.lengths]
                  /\ \A i \in 1..a.dims :
                         FloatGt(FloatSpacing(a.shape, a.lengths)[i], RZero)

\* C15: in every PlaneWaveSource implementation, a direction whose first
\* grid.dims components have zero norm makes build fail with an error and
\* return no vector.
C15_ZeroDirectionFails ==
    (load.name = "plane_wave"
        /\ DirectionNormSq(Restrict(load.direction, grid.dims)) = 0) =>
        /\ load.error # None
        /\ rhs = << >>

\* C16: PointSource.build returns, for a location inside, on the edge of or
\* outside the domain, a vector of grid.size entries that is zero except for
\* the amplitude at the flattened index of the per-axis nearest node,
\* clamped to 0..shape[a]-1, and it never raises.
C16_PointSourceClamped ==
    (load.name = "point_source" /\ load.location.kind = "coords") =>
        /\ load.error = None
        /\ DOMAIN rhs = 0..(GridSize(grid) - 1)
        /\ \E idx \in NdIndexSet(grid.shape) :
              /\ \A a \in 1..grid.dims :
                    LET h == GridSpacing(grid)[a]
                        p == load.location.at[a] * h[2]
                        q == CoordDen * h[1]
                    IN  \E j \in (0 - 2)..(grid.shape[a] + 2) :
                            /\ 2 * p - 2 * j * q <= q
                            /\ 2 * j * q - 2 * p <= q
                            /\ idx[a] = IF j < 0 THEN 0
                                        ELSE IF j > grid.shape[a] - 1 THEN grid.shape[a] - 1
                                        ELSE j
              /\ \A i \in DOMAIN rhs :
                    rhs[i] = IF i = FlattenIndex(idx, grid.shape) THEN load.amplitude ELSE 0

C16_Witness ==
    /\ load.name = "point_source"
    /\ load.module = "python"
    /\ grid.dims = 2
    /\ load.location.kind = "coords"
    /\ load.location.at[1] = CoordDen * grid.lengths[1] + 1
    /\ load.location.at[2] = 0
    /\ rhs[FlattenIndex(<<grid.shape[1] - 1, 0>>, grid.shape)] = load.amplitude
    /\ load.amplitude # 0

\* the configuration number n (from 1) of the Cartesian product of a sweep,
\* grids outermost and discretisations innermost, by index arithmetic
ProductEntry(s, n) ==
    LET K == Len(s.wavenumbers)
        L == Len(s.loads)
        D == Len(s.discretisations)
    IN  [grid |-> s.grids[((n - 1) \div (K * L * D)) + 1],
         wavenumber |-> s.wavenumbers[(((n - 1) \div (L * D)) % K) + 1],
         load |-> s.loads[(((n - 1) \div D) % L) + 1],
         discretisation |-> s.discretisations[((n - 1) % D) + 1]]

ProductSize(s) == Len(s.grids) * Len(s.wavenumbers) * Len(s.loads) * Len(s.discretisations)

SameCase(c, e) ==
    /\ c.grid = e.grid
    /\ c.wavenumber = e.wavenumber
    /\ c.load = e.load
    /\ c.discretisation = e.discretisation

C18_RunExperimentRecords ==
    drv.op = "run_experiment" =>
        /\ drv.pc # "raised"
        /\ \A n \in 1..Len(drv.records) :
               /\ SameCase(drv.records[n], ProductEntry(drv.sweep, n))
               /\ drv.records[n].solver_result = SolveOf(ProductEntry(drv.sweep, n))
        /\ drv.pc = "finished" => Len(drv.records) = ProductSize(drv.sweep)
        /\ LET per == IF drv.sweep.hook THEN 3 ELSE 2
           IN  /\ Len(drv.events) = per * Len(drv.records)
               /\ \A n \in 1..Len(drv.records) :
                      /\ drv.events[per * (n - 1) + 1][1] = "solve"
                      /\ drv.sweep.hook =>
                            /\ drv.events[per * (n - 1) + 2][1] = "hook"
                            /\ SameCase(drv.events[per * (n - 1) + 2][2],
                                        ProductEntry(drv.sweep, n))
                            /\ drv.events[per * (n - 1) + 2][3] = drv.records[n].solver_result
                      /\ drv.events[per * n] = <<"yield", drv.records[n]>>

\* the objects invocation t may write into
Owned(t) ==
    { conc.threads[t].fr[n] : n \in WrittenFields \cap DOMAIN conc.threads[t].fr }

\* the result invocation t returned, as its caller reads it
ReturnedResult(t) ==
    LET ret == conc.threads[t].fr.ret
    IN  IF conc.pc = "gmres_basic"
        THEN [x |-> conc.heap[ret.x].val, res_hist |-> conc.heap[ret.res_hist].val,
              res_fields |-> conc.heap[ret.res_fields].val]
        ELSE [ret EXCEPT !.residuals = conc.heap[ret.residuals].val]

ConcStarted(t) == conc.threads[t].fr.pc \notin {"start", "raised"}

ConcReturned(t) == conc.threads[t].fr.pc \in {"done", "returned"}

\* C19: two solves interleaved in any order on the same operator and
\* right-hand side share no mutable state: the objects one invocation writes
\* (residual history, Krylov basis, Hessenberg matrix) are written by no
\* other invocation and are neither the operator nor the right-hand side,
\* which stay as the caller passed them; the state of each invocation and
\* the result it returns are those of the same solve run alone.
C19_ConcurrentSolvesIndependent ==
    conc.pc \in {"gmres_basic", "gmres_solve"} =>
        /\ conc.heap[OperatorRef].val = conc.shared.A
        /\ conc.heap[RhsRef].val = conc.shared.b
        /\ \A t \in Threads :
              ConcStarted(t) =>
                  /\ Owned(t) \cap {OperatorRef, RhsRef} = {}
                  /\ \A u \in Threads \ {t} :
                        ConcStarted(u) => Owned(t) \cap Owned(u) = {}
                  /\ ~ConcReturned(t) =>
                        Load(conc.heap, conc.threads[t].fr) = conc.threads[t].alone
                  /\ ConcReturned(t) => ReturnedResult(t) = conc.threads[t].alone.ret

C19_Witness ==
    /\ conc.pc = "gmres_basic"
    /\ \A t \in Threads : ConcReturned(t) /\ conc.threads[t].fr.k = 2
    /\ conc.threads[1].call # conc.threads[2].call

\* the couplings the wrap-around connects: 1/h_a^2 for every axis a along
\* which the nodes ir and ic are the two ends (0 and n_a - 1) of one grid line
RECURSIVE WrapCoupling(_, _, _, _)
WrapCoupling(g, ir, ic, a) ==
    IF a > g.dims THEN 0
    ELSE (IF /\ \A b \in (1..g.dims) \ {a} : ir[b] = ic[b]
             /\ ir[a] # ic[a]
             /\ {ir[a], ic[a]} = {0, g.shape[a] - 1}
          THEN InvH2Axis(g, a) ELSE 0)
         + WrapCoupling(g, ir, ic, a + 1)

\* C20: the periodic pass adds 1/h_a^2 between index 0 and index n_a - 1 of
\* every grid line along every axis a, in both directions, and changes no
\* other entry of the Laplacian; no row becomes a unit row.
C20_PeriodicAddsOnlyWrapCouplings ==
    (Assembled /\ result.bc = "periodic") =>
        LET L == KronSumLaplacian(grid)
            M == result.matrix
        IN  /\ \A ir \in NdIndexSet(grid.shape) : \A ic \in NdIndexSet(grid.shape) :
                   LET r == FlattenIndex(ir, grid.shape)
                       c == FlattenIndex(ic, grid.shape)
                   IN  M[r][c] - (IF c = r THEN Q(result.k * result.k) ELSE 0)
                           = L[r][c] + WrapCoupling(grid, ir, ic, 1)
            /\ \A r \in DOMAIN M : ~UnitRow(M, r)

\* the sum of 1/h_a^2 over the axes a on which idx is the first or last node
RECURSIVE FaceIncrement(_, _, _)
FaceIncrement(g, idx, a) ==
    IF a > g.dims THEN 0
    ELSE (IF idx[a] = 0 \/ idx[a] = g.shape[a] - 1 THEN InvH2Axis(g, a) ELSE 0)
         + FaceIncrement(g, idx, a + 1)

RECURSIVE RowSumFrom(_, _, _)
RowSumFrom(M, r, c) ==
    IF c \notin DOMAIN M[r] THEN 0 ELSE M[r][c] + RowSumFrom(M, r, c + 1)

\* C21: the Neumann pass adds 1/h_a^2 to the diagonal entry of a node once
\* for every axis a on which the node is the first or last one, and changes
\* no off-diagonal entry and no interior row; every row of the Neumann
\* Laplacian sums to zero.
C21_NeumannDiagonalIncrements ==
    (Assembled /\ result.bc = "neumann") =>
        LET L == KronSumLaplacian(grid)
            M == result.matrix
            shift == Q(result.k * result.k)
        IN  \A idx \in NdIndexSet(grid.shape) :
                LET r == FlattenIndex(idx, grid.shape)
                IN  /\ \A c \in DOMAIN M :
                           M[r][c] = L[r][c] + (IF c = r
                                                THEN FaceIncrement(grid, idx, 1) + shift
                                                ELSE 0)
                    /\ RowSumFrom(M, r, 0) - shift = 0

C21_Witness ==
    /\ Assembled
    /\ result.bc = "neumann"
    /\ grid.dims = 2
    /\ InteriorIdx(grid.shape) # {}
    /\ result.k = 2

\* the operator as it is before the Dirichlet pass of the call that made
\* `result`, with the k^2 shift the entry points of src/src add after the pass
BeforeDirichletPass ==
    IF result.entry = "legacy.FiniteDifference.assemble"
    THEN CASE grid.dims = 1 -> LegacyDiags1d(grid, result.k)
           [] grid.dims = 2 -> LegacyKron2d(grid, result.k)
           [] grid.dims = 3 -> LegacyKron3d(grid, result.k)
    ELSE MatAdd(KronSumLaplacian(grid),
                MatScale(Q(result.k * result.k), Eye(GridSize(grid))))

\* C22: the Dirichlet pass changes only rows of nodes that are the first or
\* last node of some axis: every interior row is the same before and after
\* the pass, its couplings to boundary-node columns included.
C22_DirichletKeepsInteriorRows ==
    (Assembled /\ result.bc = "dirichlet") =>
        \A idx \in InteriorIdx(grid.shape) :
            LET r == FlattenIndex(idx, grid.shape)
            IN  \A c \in DOMAIN result.matrix :
                    result.matrix[r][c] = BeforeDirichletPass[r][c]

C22_Witness ==
    /\ Assembled
    /\ result.bc = "dirichlet"
    /\ result.entry = "laplacian_operator"
    /\ grid.dims = 2
    /\ \E idx \in InteriorIdx(grid.shape) :
           \E c \in Neighbours(idx, grid) :
               result.matrix[FlattenIndex(idx, grid.shape)][c] # 0

\* C23: gmres_basic stops at the first iteration whose residual norm is below
\* tol: the loop is not entered again after it, that residual is the last
\* entry of the history, and the residual of every earlier iteration is not
\* below tol.
C23_StopsAtFirstResidualBelowTol ==
    (Started /\ gm.k >= 1) =>
        /\ Len(gm.res_hist) = gm.k + 1
        /\ \A j \in 1..(gm.k - 1) : ~NormBelow(gm.res_hist[j + 1], gm.tol)
        /\ NormBelow(gm.res_hist[gm.k + 1], gm.tol) => gm.pc \in {"break", "done"}
        /\ gm.pc = "done" => gm.ret.res_hist = gm.res_hist

C23_Witness ==
    /\ gm.pc = "done"
    /\ gm.k = 2
    /\ gm.maxit = MaxIt
    /\ ~NormBelow(gm.ret.res_hist[2], gm.tol)
    /\ NormBelow(gm.ret.res_hist[3], gm.tol)

\* C24: when pass k of gmres_basic yields H[k+1,k] = 0, pass k is the last
\* one, for every operator and every tolerance: no pass is made after a pass
\* that broke down.
C24_NoStepAfterBreakdown ==
    Started => \A j \in 1..(gm.k - 1) : gm.H[j + 1][j] # RZero

\* C25: after every pass k of gmres_basic the stored basis vectors v_1..v_k
\* are orthonormal: <v_i, v_j> is 1 for i = j and 0 otherwise.
C25_BasisOrthonormal ==
    Started =>
        \A i \in 1..gm.k : \A j \in 1..gm.k :
            Dot(gm.V[i], gm.V[j]) = IF i = j THEN RInt(1) ELSE RZero

\* C26: the legacy FiniteDifference assembler counts the mass term k^2 once
\* in every dimension: the diagonal entry of every interior row is
\* 2 * sum_a 1/h_a^2 + k^2 on 1-D, 2-D and 3-D grids.
C26_LegacyMassTermOnce ==
    (Assembled /\ result.entry = "legacy.FiniteDifference.assemble") =>
        \A idx \in InteriorIdx(grid.shape) :
            LET r == FlattenIndex(idx, grid.shape)
            IN  result.matrix[r][r] = 2 * SumInvH2(grid, 1) + Q(result.k * result.k)

\* C27: gmres_basic returns without an Arnoldi step only when the initial
\* residual norm is exactly 0 (or maxit is 0); when it is positive and
\* maxit >= 1 the call makes at least one step before it leaves the loop,
\* also when the initial residual norm is already below tol.
C27_ZeroStepsOnlyForZeroResidual ==
    (gm.pc \in {"break", "done"} /\ gm.maxit >= 1) =>
        (gm.k = 0 <=> InitialResidual = ZeroVec(Len(gm.b)))

C27_Witness ==
    /\ gm.pc = "done"
    /\ gm.maxit = MaxIt
    /\ gm.k = 1
    /\ NormBelow(gm.ret.res_hist[1], gm.tol)
    /\ gm.ret.res_hist[1] # RZero
    /\ gm.ret.res_hist[2] # gm.ret.res_hist[1]

\* H is zero below its first subdiagonal and in the columns after k, and V is
\* zero in the columns after k + 1
HessenbergSoFar(f) ==
    /\ \A i \in 1..(f.maxit + 1) : \A j \in 1..f.maxit :
           (i > j + 1 \/ j > f.k) => f.H[i][j] = RZero
    /\ \A j \in 1..(f.maxit + 1) : j > f.k + 1 => f.V[j] = ZeroVec(Len(f.b))

\* C28: throughout gmres_basic H stays upper Hessenberg and is filled column
\* by column: pass k writes entries of column k of H only and leaves every
\* other column as it was, H[i,j] = 0 for i > j+1 and for j > k; column k+1
\* of V is written at pass k only, and only if H[k+1,k] > 0 and k < maxit;
\* the columns of V after k+1 are zero.
C28_HessenbergColumnByColumn ==
    [][(gm'.pc \in {"loop", "break", "done"} /\ gm'.H # << >>) =>
          /\ HessenbergSoFar(gm')
          /\ (gm.pc = "loop" /\ gm'.k = gm.k + 1) =>
                /\ \A j \in 1..gm.maxit : j # gm'.k =>
                       \A i \in 1..(gm.maxit + 1) : gm'.H[i][j] = gm.H[i][j]
                /\ \A j \in 1..(gm.maxit + 1) : j # gm'.k + 1 => gm'.V[j] = gm.V[j]
                /\ gm'.V[gm'.k + 1] # gm.V[gm'.k + 1] =>
                       /\ RLt(RZero, gm'.H[gm'.k + 1][gm'.k])
                       /\ gm'.k < gm.maxit
          /\ (gm.pc \in {"loop", "break"} /\ gm'.k = gm.k) =>
                /\ gm'.H = gm.H
                /\ gm'.V = gm.V
      ]_vars

C28_Witness ==
    /\ gm.pc = "done"
    /\ gm.maxit = MaxIt
    /\ gm.k = 2
    /\ RLt(RZero, gm.H[2][1])
    /\ gm.V[2] # ZeroVec(Len(gm.b))
    /\ gm.H[1][2] # RZero

\* the user callback was called once per reported residual, call number i
\* with the residual whose norm is entry i of the list and with the list
\* holding i entries
UserCallsFollowAppends(s) ==
    IF s.has_callback
    THEN /\ Len(s.user_calls) = Len(s.residuals)
         /\ \A i \in 1..Len(s.user_calls) :
                /\ Len(s.user_calls[i].residuals) = i
                /\ s.user_calls[i].residuals = SubSeq(s.residuals, 1, i)
                /\ LoggedNorm(s, s.user_calls[i].residual) = s.residuals[i]
    ELSE s.user_calls = << >>

\* C29: in gmres_solve, each time SciPy reports a residual its norm is
\* appended to the residual list first and the user callback, if any, is then
\* called once with the same residual, so that at every call of the user
\* callback the list holds as many entries as the callback has had calls;
\* entries once appended are never changed or removed.
C29_AppendThenUserCallback ==
    [][sv'.pc \in {"running", "returned", "raised"} =>
          /\ UserCallsFollowAppends(sv')
          /\ Len(sv'.residuals) = sv'.it
          /\ sv.pc = "running" =>
                /\ Len(sv'.residuals) >= Len(sv.residuals)
                /\ SubSeq(sv'.residuals, 1, Len(sv.residuals)) = sv.residuals
      ]_vars

C29_Witness ==
    /\ sv.pc = "returned"
    /\ sv.has_callback
    /\ sv.variant = "src"
    /\ Len(sv.user_calls) = MaxIt
    /\ sv.residuals[1] # sv.user_calls[1].residual
    /\ sv.ret.residuals = sv.residuals

\* C30: gmres_basic never modifies its inputs: the operator A, the
\* right-hand side b and the caller's initial guess x0 hold the values the
\* caller passed at every point of the solve and after it, on every exit
\* path, and the returned solution is a vector of its own, not x0.
C30_InputsUnchanged ==
    conc.pc = "gmres_basic" =>
        /\ conc.heap[OperatorRef].val = conc.shared.A
        /\ conc.heap[RhsRef].val = conc.shared.b
        /\ \A t \in Threads :
              /\ conc.heap[GuessRef(t)].val = conc.threads[t].call.x0
              /\ ConcReturned(t) =>
                    conc.threads[t].fr.ret.x
                        \notin {OperatorRef, RhsRef} \cup { GuessRef(u) : u \in Threads }

C30_Witness ==
    /\ conc.pc = "gmres_basic"
    /\ \A t \in Threads : ConcReturned(t)
    /\ conc.threads[1].fr.k = 0
    /\ conc.threads[1].call.maxit = 2
    /\ conc.threads[2].fr.k = 2
    /\ ReturnedResult(2).x # conc.threads[2].call.x0

====
